---- MODULE Spec2Model ----
(***************************************************************************)
(* A model of mmap-object (src/mmap-object.cc): a file-backed key/value    *)
(* store mapped by several processes, with its cross-process locking.      *)
(*                                                                         *)
(*   Spec      the locking protocol: reify_mutexes, Open, Close,           *)
(*             writeLock/writeUnlock and the lock steps of the property     *)
(*             handlers, interleaved between processes.                     *)
(*   SpecData  the property handlers of one session run to completion on   *)
(*             the arena: PropSetter with its grow-and-retry loop,         *)
(*             PropGetter, PropDeleter, PropEnumerator.                    *)
(*                                                                         *)
(* Strings are sequences of character codes, so that the conversions the   *)
(* handlers make (a std::string built from the char pointer) are modelled   *)
(* by what they do.                                                        *)
(* The arena's allocator is modelled by its count of free bytes: an        *)
(* allocation of n bytes succeeds exactly when n bytes are free (no         *)
(* fragmentation), and the bucket arrays of the hash maps are taken as     *)
(* allocated.                                                              *)
(***************************************************************************)
EXTENDS Integers, Sequences, FiniteSets, TLC

VARIABLES
  shm,      \* the named shared-memory object of the path: 0 (absent) or the id of its region
  region,   \* region id -> the Mutexes block held in that region
  sess,     \* process -> its SharedMap (readonly, writeonly, closed, inGlobalLock, ...) and position
  file,     \* the arena file: exists, size, free bytes, the SHARDS property maps
  ret,      \* what the last property handler returned or threw
  calls     \* number of property-handler calls made

vars == <<shm, region, sess, file, ret, calls>>

(***************************************************************************)
(* Program constants                                                       *)
(***************************************************************************)
SHARDS == 64
MINIMUM_FILE_SIZE == 10240
STRING_TYPE == 1
NUMBER_TYPE == 2
GrowFloor == 100

\* Bytes of one hash node (link, hash, the pair of a shared_string and a Cell)
\* without the characters its strings own.
NodeBytes == 72

\* A shared_string of fewer characters than this keeps them inside itself and
\* allocates nothing.
InternalBufferChars == 23

\* sizeof(Cell) and sizeof(double) as PropSetter adds them into data_length.
SizeofCell == 32
SizeofDouble == 8

(***************************************************************************)
(* Bounds of the model                                                     *)
(***************************************************************************)
MaxFreeUnits == 20   \* free space of the arena when the session of SpecData starts, in FreeUnit bytes
MaxCalls == 2        \* handler calls explored by SpecData

FreeUnit == 8        \* every size allocated in the model is a multiple of it

Max(a, b) == IF a >= b THEN a ELSE b

(***************************************************************************)
(* Strings and values as the binding hands them over                       *)
(***************************************************************************)
NUL == 0
Str_a == <<97>>
Str_a_nul_b == <<97, 0, 98>>             \* "a", NUL, "b"
Str_prototype == <<112, 114, 111, 116, 111, 116, 121, 112, 101>>
Str_x == <<120>>
Str_x_nul_y == <<120, 0, 121>>           \* "x", NUL, "y"
Str_long_key == [i \in 1..InternalBufferChars |-> 107]     \* 23 times "k"
Str_long_value == [i \in 1..InternalBufferChars |-> 118]   \* 23 times "v"

JsString(s) == [kind |-> "string", chars |-> s, num |-> 0]
JsNumber(n) == [kind |-> "number", chars |-> <<>>, num |-> n]
JsSymbol == [kind |-> "symbol", chars |-> <<>>, num |-> 0]
JsOther == [kind |-> "other", chars |-> <<>>, num |-> 0]
JsUndefined == [kind |-> "undefined", chars |-> <<>>, num |-> 0]
JsArray(seq) == [kind |-> "array", chars |-> seq, num |-> Len(seq)]

\* std::string built from the Utf8Value's char pointer: a C string ends at its first NUL.
CStr(s) ==
  LET n == Len(s)
      cut == IF \E i \in 1..n : s[i] = NUL
             THEN CHOOSE i \in 1..n : s[i] = NUL /\ \A j \in 1..(i - 1) : s[j] # NUL
             ELSE n + 1
  IN SubSeq(s, 1, cut - 1)

\* Bytes a shared_string of these characters allocates in the arena.
StrBytes(cs) == IF Len(cs) < InternalBufferChars THEN 0 ELSE Len(cs) + 1

RECURSIVE SumChars(_)
SumChars(cs) == IF cs = <<>> THEN 0 ELSE Head(cs) + SumChars(Tail(cs))

\* boost::hash<std::string>: some fixed function of the C string.
string_hash(cs) == SumChars(cs)

HASH(prop) == string_hash(CStr(prop)) % SHARDS

(***************************************************************************)
(* The arena: Cell, PropertyHash, allocation                               *)
(***************************************************************************)
\* Cell(const char *, allocator) and Cell(double).
StringCell(cs) == [cell_type |-> STRING_TYPE, string_value |-> cs, number_value |-> 0]
NumberCell(n) == [cell_type |-> NUMBER_TYPE, string_value |-> <<>>, number_value |-> n]

\* The Cell PropSetter constructs from the value: the string's characters up
\* to its first NUL, or the number.
NewCell(value) ==
  IF value.kind = "string" THEN StringCell(CStr(value.chars)) ELSE NumberCell(value.num)

\* Arena bytes the Cell's string owns (a number lives inside the Cell).
CellBytes(cell) ==
  IF cell.cell_type = STRING_TYPE THEN StrBytes(cell.string_value) ELSE 0

\* The array of SHARDS PropertyHash maps named "properties". The model keeps
\* the maps that hold a key; every other shard's map is the empty one.
EmptyMap == <<>>
EmptyTables == <<>>
TableAt(tables, h) == IF h \in DOMAIN tables THEN tables[h] ELSE EmptyMap
TablePut(tables, h, map) ==
  [i \in (IF map = EmptyMap THEN (DOMAIN tables) \ {h} ELSE (DOMAIN tables) \cup {h}) |->
     IF i = h THEN map ELSE tables[i]]

\* unordered_map::erase(key) and the insert of a key the map does not hold.
MapErase(map, key) == [k \in (DOMAIN map) \ {key} |-> map[k]]
MapInsert(map, key, cell) == [k \in (DOMAIN map) \cup {key} |-> IF k = key THEN cell ELSE map[k]]

\* One pass of the body of PropSetter's loop: the Cell, the key, the
\* temporary pair handed to insert and the node insert makes each allocate in
\* the arena, and bip::bad_alloc leaves the body at the first that does not
\* fit. ~Cell does not destroy the string it owns (the union's destructor is
\* empty), so the string of the Cell c, of the temporary's copy and of an
\* erased node's Cell stay allocated; string_key is never deleted. The result
\* is the arena afterwards and whether bad_alloc was thrown.
SetAttempt(f, prop, value) ==
  LET key == CStr(prop)
      h == HASH(prop)
      cell == NewCell(value)
      K == StrBytes(key)
      V == CellBytes(cell)
      map == TableAt(f.tables, h)
      free1 == f.free - V                  \* c = new Cell(...)
      free2 == free1 - K                   \* string_key = new shared_string(...)
      free3 == free2 - V                   \* the temporary pair is gone: its key freed, its Cell's string not
      free4 == free3 + NodeBytes + K       \* erase: the node and its key freed, its Cell's string not
      free5 == free4 - V                   \* the second temporary pair is gone
      erased == [f EXCEPT !.tables = TablePut(f.tables, h, MapErase(map, key))]
  IN IF V > f.free THEN [thrown |-> TRUE, file |-> f]
     ELSE IF K > free1 THEN [thrown |-> TRUE, file |-> [f EXCEPT !.free = free1]]
     ELSE IF K + V > free2 THEN [thrown |-> TRUE, file |-> [f EXCEPT !.free = free2]]
     ELSE IF key \notin DOMAIN map
     THEN IF NodeBytes + K + V > free2 - (K + V)
          THEN [thrown |-> TRUE, file |-> [f EXCEPT !.free = free3]]
          ELSE [thrown |-> FALSE,
                file |-> [f EXCEPT !.free = free3 - (NodeBytes + K + V),
                                   !.tables = TablePut(f.tables, h, MapInsert(map, key, cell))]]
     ELSE \* pair.second is false: erase, then insert again
          IF K + V > free4
          THEN [thrown |-> TRUE, file |-> [erased EXCEPT !.free = free4]]
          ELSE IF NodeBytes + K + V > free4 - (K + V)
          THEN [thrown |-> TRUE, file |-> [erased EXCEPT !.free = free5]]
          ELSE [thrown |-> FALSE,
                file |-> [f EXCEPT !.free = free5 - (NodeBytes + K + V),
                                   !.tables = TablePut(f.tables, h, MapInsert(MapErase(map, key), key, cell))]]

\* A grow that extends the file for a session of any mode: what the handlers
\* would do if growth were not reserved to write-only sessions.
grow_AnyMode(f, s, size, growOk) ==
  LET sz == IF size < GrowFloor THEN GrowFloor ELSE size
      file_size == f.size + sz
  IN IF file_size > s.max_file_size
     THEN [file |-> f, s |-> s, error |-> "File grew too large."]
     ELSE IF ~growOk
     THEN [file |-> f, s |-> [s EXCEPT !.map_seg = "deleted"], error |-> "Error growing file."]
     ELSE [file |-> [f EXCEPT !.size = file_size, !.free = f.free + sz],
           s |-> [s EXCEPT !.map_seg = "mapped", !.closed = FALSE], error |-> ""]

\* A grow that adds exactly the size asked for, without the floor of 100
\* bytes.
grow_NoFloor(f, s, size, growOk) ==
  LET file_size == f.size + size
  IN IF ~s.writeonly
     THEN [file |-> f, s |-> s,
           error |-> "File needs to be larger but can only be resized in write-only mode."]
     ELSE IF file_size > s.max_file_size
     THEN [file |-> f, s |-> s, error |-> "File grew too large."]
     ELSE IF ~growOk
     THEN [file |-> f, s |-> [s EXCEPT !.map_seg = "deleted"], error |-> "Error growing file."]
     ELSE [file |-> [f EXCEPT !.size = file_size, !.free = f.free + size],
           s |-> [s EXCEPT !.map_seg = "mapped", !.closed = FALSE], error |-> ""]

\* SharedMap::grow(size). growOk is whether managed_mapped_file::grow, the
\* extension of the file, succeeds. The result is the arena, the session and
\* the error thrown ("" when grow returns true).
grow(f, s, size, growOk) ==
  LET sz == IF size < GrowFloor THEN GrowFloor ELSE size
      file_size == f.size + sz
  IN IF ~s.writeonly
     THEN [file |-> f, s |-> s,
           error |-> "File needs to be larger but can only be resized in write-only mode."]
     ELSE IF file_size > s.max_file_size
     THEN [file |-> f, s |-> s, error |-> "File grew too large."]
     ELSE IF ~growOk
     THEN [file |-> f, s |-> [s EXCEPT !.map_seg = "deleted"], error |-> "Error growing file."]
     ELSE [file |-> [f EXCEPT !.size = file_size, !.free = f.free + sz],
           s |-> [s EXCEPT !.map_seg = "mapped", !.closed = FALSE], error |-> ""]

\* data_length of PropSetter: sizeof(Cell) plus the UTF-8 length of the whole
\* string, or sizeof(double).
data_length(value) ==
  SizeofCell + (IF value.kind = "string" THEN Len(value.chars) ELSE SizeofDouble)

\* A grow_size of twice the larger of the arena's size and data_length.
grow_size_MaxDoubled(file_size, length) == Max(file_size, length) * 2

\* grow_size of the bad_alloc and length_error handlers of PropSetter: twice
\* map_seg->get_size(), or data_length when that is larger.
grow_size(file_size, length) ==
  LET doubled == file_size * 2
  IN IF doubled < length THEN length ELSE doubled

\* The while(true) loop of PropSetter: the body, and after bad_alloc the
\* growth by grow_size and the next pass.
RECURSIVE SetLoop(_, _, _, _, _)
SetLoop(f, s, prop, value, growOk) ==
  LET a == SetAttempt(f, prop, value)
      g == grow(a.file, s, grow_size(a.file.size, data_length(value)), growOk)
  IN IF ~a.thrown
     THEN [file |-> a.file, s |-> s, status |-> "ok", error |-> "", value |-> value]
     ELSE IF g.error # ""
     THEN [file |-> g.file, s |-> g.s, status |-> "error", error |-> g.error, value |-> JsUndefined]
     ELSE SetLoop(g.file, g.s, prop, value, growOk)

Thrown(f, s, msg) == [file |-> f, s |-> s, status |-> "error", error |-> msg, value |-> JsUndefined]

\* PropSetter without its check of closed: a set on a closed session goes on
\* to the insert loop.
PropSetter_NoClosedCheck(f, s, prop, value, growOk) ==
  IF s.readonly THEN Thrown(f, s, "Cannot write to read-only object.")
  ELSE IF prop.kind = "symbol" THEN Thrown(f, s, "Symbol properties are not supported.")
  ELSE IF value.kind \notin {"string", "number"} THEN Thrown(f, s, "Value must be a string or number.")
  ELSE SetLoop(f, s, prop.chars, value, growOk)

\* NAN_PROPERTY_SETTER(SharedMap::PropSetter), the locks aside.
PropSetter(f, s, prop, value, growOk) ==
  IF s.readonly THEN Thrown(f, s, "Cannot write to read-only object.")
  ELSE IF s.closed THEN Thrown(f, s, "Cannot write to closed object.")
  ELSE IF prop.kind = "symbol" THEN Thrown(f, s, "Symbol properties are not supported.")
  ELSE IF value.kind \notin {"string", "number"} THEN Thrown(f, s, "Value must be a string or number.")
  ELSE SetLoop(f, s, prop.chars, value, growOk)

\* NAN_PROPERTY_GETTER(SharedMap::PropGetter), the locks aside. "undefined"
\* is the handler returning without a value.
PropGetter(f, s, prop) ==
  LET key == CStr(prop.chars)
      map == TableAt(f.tables, HASH(prop.chars))
      c == map[key]
      undefined == [file |-> f, s |-> s, status |-> "undefined", error |-> "", value |-> JsUndefined]
  IN IF prop.kind = "symbol" THEN undefined
     ELSE IF key = Str_prototype THEN undefined
     ELSE IF s.closed THEN Thrown(f, s, "Cannot read from closed object.")
     ELSE IF key \notin DOMAIN map THEN undefined
     ELSE IF c.cell_type = STRING_TYPE
     THEN [file |-> f, s |-> s, status |-> "ok", error |-> "", value |-> JsString(c.string_value)]
     ELSE IF c.cell_type = NUMBER_TYPE
     THEN [file |-> f, s |-> s, status |-> "ok", error |-> "", value |-> JsNumber(c.number_value)]
     ELSE undefined

\* PropDeleter without its check of readonly: a delete on a read-only session
\* goes on to the key's copy and erase.
PropDeleter_NoReadonlyCheck(f, s, prop) ==
  LET key == CStr(prop.chars)
      h == HASH(prop.chars)
      map == TableAt(f.tables, h)
      K == StrBytes(key)
  IN IF prop.kind = "symbol" THEN Thrown(f, s, "Symbol properties are not supported for delete.")
     ELSE IF s.closed THEN Thrown(f, s, "Cannot delete from closed object.")
     ELSE IF K > f.free
     THEN [file |-> f, s |-> [s EXCEPT !.pc = "terminated"], status |-> "error",
           error |-> "boost::interprocess::bad_alloc", value |-> JsUndefined]
     ELSE IF key \in DOMAIN map
     THEN [file |-> [f EXCEPT !.free = f.free - K + NodeBytes + K, !.tables = TablePut(f.tables, h, MapErase(map, key))],
           s |-> s, status |-> "ok", error |-> "", value |-> JsUndefined]
     ELSE [file |-> [f EXCEPT !.free = f.free - K],
           s |-> s, status |-> "ok", error |-> "", value |-> JsUndefined]

\* NAN_PROPERTY_DELETER(SharedMap::PropDeleter), the locks aside. The key is
\* copied into the arena before erase; bip::bad_alloc is not caught here.
PropDeleter(f, s, prop) ==
  LET key == CStr(prop.chars)
      h == HASH(prop.chars)
      map == TableAt(f.tables, h)
      K == StrBytes(key)
  IN IF prop.kind = "symbol" THEN Thrown(f, s, "Symbol properties are not supported for delete.")
     ELSE IF s.readonly THEN Thrown(f, s, "Cannot delete from read-only object.")
     ELSE IF s.closed THEN Thrown(f, s, "Cannot delete from closed object.")
     ELSE IF K > f.free
     THEN [file |-> f, s |-> [s EXCEPT !.pc = "terminated"], status |-> "error",
           error |-> "boost::interprocess::bad_alloc", value |-> JsUndefined]
     ELSE IF key \in DOMAIN map
     THEN [file |-> [f EXCEPT !.free = f.free - K + NodeBytes + K, !.tables = TablePut(f.tables, h, MapErase(map, key))],
           s |-> s, status |-> "ok", error |-> "", value |-> JsUndefined]
     ELSE [file |-> [f EXCEPT !.free = f.free - K],
           s |-> s, status |-> "ok", error |-> "", value |-> JsUndefined]

\* The keys of a map in its iteration order (some fixed order).
RECURSIVE MapKeys(_)
MapKeys(keys) ==
  IF keys = {} THEN <<>>
  ELSE LET k == CHOOSE x \in keys : TRUE IN <<k>> \o MapKeys(keys \ {k})

\* The keys of the shards lo .. hi - 1, shard after shard. The range is
\* halved rather than peeled so that the evaluation stays shallow.
RECURSIVE ShardRangeKeys(_, _, _)
ShardRangeKeys(tables, lo, hi) ==
  IF hi <= lo THEN <<>>
  ELSE IF hi = lo + 1 THEN MapKeys(DOMAIN TableAt(tables, lo))
  ELSE LET mid == (lo + hi) \div 2
       IN ShardRangeKeys(tables, lo, mid) \o ShardRangeKeys(tables, mid, hi)

\* The keys of the shards sh .. SHARDS - 1 in the order of the walk.
ShardKeys(tables, sh) == ShardRangeKeys(tables, sh, SHARDS)

\* NAN_PROPERTY_ENUMERATOR(SharedMap::PropEnumerator), the locks aside.
PropEnumerator(f, s) ==
  IF s.closed
  THEN [file |-> f, s |-> s, status |-> "ok", error |-> "", value |-> JsArray(<<>>)]
  ELSE [file |-> f, s |-> s, status |-> "ok", error |-> "", value |-> JsArray(ShardKeys(f.tables, 0))]


(***************************************************************************)
(* Sessions                                                                *)
(***************************************************************************)
Procs == {"A", "B"}

\* SharedMap() : readonly(false), writeonly(false), closed(false), inGlobalLock(false)
\* mutexes is the id of the region mutex_region maps, 0 when none is mapped.
\* prop and arg are the arguments of the handler call in progress, worker is
\* the state of the CloseWorker queued by an asynchronous close, and opens
\* counts the Open calls of the process. wo_at_call is a history field: the
\* write-only sessions of other processes that were open when Open was called.
\* held is a history field: the locks that the call in progress has requested
\* through a lock constructor or global_mutex.lock(), in the order of the
\* requests, each as the pair of the mutex and the mode.
NewSharedMap ==
  [pc |-> "unopened", readonly |-> FALSE, writeonly |-> FALSE, closed |-> FALSE,
   inGlobalLock |-> FALSE, max_file_size |-> 0, map_seg |-> "null", mutexes |-> 0,
   prop |-> JsUndefined, arg |-> JsUndefined, worker |-> "none", opens |-> 0,
   wo_at_call |-> {}, held |-> <<>>]

NoReturn == [op |-> "none", proc |-> "A", prop |-> JsUndefined, arg |-> JsUndefined,
             status |-> "none", error |-> "", value |-> JsUndefined]

Returned(op, p, prop, arg, r) ==
  [op |-> op, proc |-> p, prop |-> prop, arg |-> arg,
   status |-> r.status, error |-> r.error, value |-> r.value]

(***************************************************************************)
(* SpecData: the handlers of one open session, each run to completion      *)
(***************************************************************************)
D == "A"

\* What the binding passes as property and as value.
DataProps == {JsString(Str_a), JsString(Str_a_nul_b), JsString(Str_long_key),
              JsString(Str_prototype), JsSymbol}
DataValues == {JsString(Str_x), JsString(Str_x_nul_y), JsString(Str_long_value),
               JsNumber(1), JsOther}

\* max_file_size as Open computes it from its argument, in KB.
DataMaxSizes == {10 * 1024, 40 * 1024}

\* The session is open on an existing file of the minimum size in one of the
\* three modes; the arena has up to MaxFreeUnits units of free space left
\* (earlier sets and deletes leave memory allocated, and a write-only close
\* shrinks the file to what is used).
InitData ==
  /\ shm = 0
  /\ region = <<>>
  /\ \E mode \in {"ro", "rw", "wo"}, max \in DataMaxSizes :
       sess = [p \in Procs |->
                 IF p = D
                 THEN [NewSharedMap EXCEPT !.pc = "idle", !.readonly = (mode = "ro"),
                                          !.writeonly = (mode = "wo"), !.max_file_size = max,
                                          !.map_seg = "mapped"]
                 ELSE NewSharedMap]
  /\ \E units \in 0..MaxFreeUnits :
       file = [exists |-> TRUE, size |-> MINIMUM_FILE_SIZE, free |-> units * FreeUnit,
               tables |-> EmptyTables]
  /\ ret = NoReturn
  /\ calls = 0

\* A handler can be called while the process runs and its mapping is not a
\* deleted one (grow deletes map_seg before the extension that can fail).
DataCallable ==
  /\ sess[D].pc = "idle"
  /\ sess[D].map_seg # "deleted"
  /\ calls < MaxCalls

DataReturn(op, prop, arg, r) ==
  /\ file' = r.file
  /\ sess' = [sess EXCEPT ![D] = r.s]
  /\ ret' = Returned(op, D, prop, arg, r)
  /\ calls' = calls + 1
  /\ UNCHANGED <<shm, region>>

DataSet(prop, value, growOk) ==
  /\ DataCallable
  /\ DataReturn("set", prop, value, PropSetter(file, sess[D], prop, value, growOk))

DataGet(prop) ==
  /\ DataCallable
  /\ DataReturn("get", prop, JsUndefined, PropGetter(file, sess[D], prop))

DataDelete(prop) ==
  /\ DataCallable
  /\ DataReturn("delete", prop, JsUndefined, PropDeleter(file, sess[D], prop))

DataEnumerate ==
  /\ DataCallable
  /\ DataReturn("enumerate", JsUndefined, JsUndefined, PropEnumerator(file, sess[D]))

NextData ==
  \/ \E prop \in DataProps, value \in DataValues, growOk \in BOOLEAN : DataSet(prop, value, growOk)
  \/ \E prop \in DataProps : DataGet(prop)
  \/ \E prop \in DataProps : DataDelete(prop)
  \/ DataEnumerate

SpecData == InitData /\ [][NextData]_vars


(***************************************************************************)
(* Spec: the locking protocol, interleaved between processes               *)
(***************************************************************************)
MaxRegions == 2      \* shared-memory regions created for the path
MaxOps == 2          \* property-handler calls explored by Spec
MaxOpens == 1        \* Open calls of one process

\* The control word of a boost::interprocess::interprocess_upgradable_mutex:
\* exclusive_in and upgradable_in are one bit each, num_upr_shar has the
\* remaining 30 bits of an unsigned.
max_readers == 2^30 - 1
Unlocked == [exclusive_in |-> 0, upgradable_in |-> 0, num_upr_shar |-> 0]

\* lock_sharable and timed_lock_sharable wait for this.
can_lock_sharable(m) == m.exclusive_in = 0 /\ m.num_upr_shar # max_readers
lock_sharable(m) == [m EXCEPT !.num_upr_shar = (@ + 1) % (max_readers + 1)]
unlock_sharable(m) == [m EXCEPT !.num_upr_shar = (@ - 1) % (max_readers + 1)]

\* lock and timed_lock: the first gate sets exclusive_in once no exclusive
\* or upgradable owner is in, the second gate waits for the sharable owners
\* to leave; a timed_lock that times out at the second gate clears
\* exclusive_in.
can_enter_exclusive(m) == m.exclusive_in = 0 /\ m.upgradable_in = 0
enter_exclusive(m) == [m EXCEPT !.exclusive_in = 1]
readers_gone(m) == m.num_upr_shar = 0
unlock(m) == [m EXCEPT !.exclusive_in = 0]

\* timed_unlock_upgradable_and_lock: gives the upgradable ownership up and
\* sets exclusive_in, then waits for the sharable owners to leave; on a
\* timeout the rollback gives the upgradable ownership back.
upgrade_begin(m) ==
  [m EXCEPT !.upgradable_in = 0, !.num_upr_shar = (@ - 1) % (max_readers + 1),
            !.exclusive_in = 1]
upgrade_rollback(m) ==
  [m EXCEPT !.upgradable_in = 1, !.num_upr_shar = (@ + 1) % (max_readers + 1),
            !.exclusive_in = 0]

\* unlock_upgradable: clears upgradable_in and counts one owner less.
unlock_upgradable(m) ==
  [m EXCEPT !.upgradable_in = 0, !.num_upr_shar = (@ - 1) % (max_readers + 1)]

\* struct Mutexes as its constructor leaves it: global_mutex, rw_mutex[SHARDS]
\* and wo_mutex, all unlocked. The model keeps the rw_mutex entries that are
\* not in the unlocked state. again is a history field: whether Mutexes has
\* been constructed again over a region that held one.
NewMutexes ==
  [global_mutex |-> Unlocked, rw_mutex |-> <<>>, wo_mutex |-> Unlocked, again |-> FALSE]
MutexesAgain == [NewMutexes EXCEPT !.again = TRUE]
rw_mutex(m, h) == IF h \in DOMAIN m.rw_mutex THEN m.rw_mutex[h] ELSE Unlocked
with_rw_mutex(m, h, w) ==
  [m EXCEPT !.rw_mutex =
     [i \in (IF w = Unlocked THEN (DOMAIN m.rw_mutex) \ {h} ELSE (DOMAIN m.rw_mutex) \cup {h}) |->
        IF i = h THEN w ELSE m.rw_mutex[i]]]

\* The Mutexes block the session p has mapped, and the shard of its call.
Mx(p) == region[sess[p].mutexes]
Shard(p) == HASH(sess[p].prop.chars)
SetMx(p, m) == region' = [region EXCEPT ![sess[p].mutexes] = m]
Goto(p, pc) == sess' = [sess EXCEPT ![p].pc = pc]

\* max_file_size as Open computes it from its argument, in KB.
OpenMaxSizes == {40 * 1024}

\* The session of p is open: Open has returned it, it is not closed and its
\* process runs.
IsOpen(p) ==
  /\ sess[p].map_seg = "mapped"
  /\ ~sess[p].closed
  /\ sess[p].pc # "terminated"

\* Open, up to the call of reify_mutexes: a new SharedMap with its mode.
Open(p, mode, max) ==
  /\ \/ sess[p].pc \in {"unopened", "failed"}
     \/ sess[p].pc = "idle" /\ sess[p].closed /\ sess[p].worker \in {"none", "done"}
  /\ sess[p].opens < MaxOpens
  /\ sess' = [sess EXCEPT ![p] =
                [NewSharedMap EXCEPT !.pc = "reify_open", !.readonly = (mode = "ro"),
                                     !.writeonly = (mode = "wo"), !.max_file_size = max,
                                     !.opens = sess[p].opens + 1,
                                     !.wo_at_call =
                                        {<<q, sess[q].opens>> : q \in
                                           {r \in Procs \ {p} : IsOpen(r) /\ sess[r].writeonly}}]]
  /\ UNCHANGED <<shm, region, file, ret, calls>>

\* reify_mutexes: shared_memory_object(open_only) and the mapping of the
\* region, or error 7 when the name does not exist.
reify_open_only(p) ==
  /\ sess[p].pc = "reify_open"
  /\ sess' = [sess EXCEPT ![p].pc = IF shm # 0 THEN "trial_lock" ELSE "reify_remove",
                          ![p].mutexes = shm]
  /\ UNCHANGED <<shm, region, file, ret, calls>>

\* reify_mutexes: shared_memory_object::remove(name).
reify_remove(p) ==
  /\ sess[p].pc = "reify_remove"
  /\ shm' = 0
  /\ Goto(p, "reify_create")
  /\ UNCHANGED <<region, file, ret, calls>>

\* reify_mutexes: shared_memory_object(create_only), the mapping of the new
\* region and the construction of Mutexes in it. create_only throws when the
\* name exists; nothing catches that exception.
reify_create(p) ==
  /\ sess[p].pc = "reify_create"
  /\ IF shm = 0
     THEN /\ Len(region) < MaxRegions
          /\ region' = Append(region, NewMutexes)
          /\ shm' = Len(region) + 1
          /\ sess' = [sess EXCEPT ![p].pc = "trial_lock", ![p].mutexes = Len(region) + 1]
     ELSE /\ Goto(p, "terminated")
          /\ UNCHANGED <<shm, region>>
  /\ UNCHANGED <<file, ret, calls>>

\* reify_mutexes: the trial timed_lock of global_mutex, first gate. When the
\* gate stays closed for the second the lock waits, Mutexes is constructed
\* again over the region.
reify_trial_lock(p) ==
  /\ sess[p].pc = "trial_lock"
  /\ IF can_enter_exclusive(Mx(p).global_mutex)
     THEN /\ SetMx(p, [Mx(p) EXCEPT !.global_mutex = enter_exclusive(@)])
          /\ Goto(p, "trial_wait")
     ELSE /\ SetMx(p, MutexesAgain)
          /\ Goto(p, "open_glock")
  /\ UNCHANGED <<shm, file, ret, calls>>

\* A trial lock that is taken and kept.
reify_trial_wait_KeepsLock(p) ==
  /\ sess[p].pc = "trial_wait"
  /\ IF readers_gone(Mx(p).global_mutex)
     THEN UNCHANGED region
     ELSE SetMx(p, MutexesAgain)
  /\ Goto(p, "open_glock")
  /\ UNCHANGED <<shm, file, ret, calls>>

\* reify_mutexes: the trial lock's second gate. Taken, the scoped_lock
\* releases it at the end of its block; timed out, Mutexes is constructed
\* again over the region.
reify_trial_wait(p) ==
  /\ sess[p].pc = "trial_wait"
  /\ IF readers_gone(Mx(p).global_mutex)
     THEN SetMx(p, [Mx(p) EXCEPT !.global_mutex = unlock(@)])
     ELSE SetMx(p, MutexesAgain)
  /\ Goto(p, "open_glock")
  /\ UNCHANGED <<shm, file, ret, calls>>

\* Open throws error and goes to its label ABORT, from inside the block of the
\* sharable lock on global_mutex: the lock is released at the exit of the
\* block and mutex_region is unmapped. What the session did to wo_mutex stays.
Abort(p, m, error) ==
  /\ error # ""
  /\ SetMx(p, [m EXCEPT !.global_mutex = unlock_sharable(@)])
  /\ sess' = [sess EXCEPT ![p].pc = "failed", ![p].mutexes = 0]
  /\ UNCHANGED ret

\* Open: sharable_lock lock(d->mutexes->global_mutex).
Open_global_lock(p) ==
  /\ sess[p].pc = "open_glock"
  /\ can_lock_sharable(Mx(p).global_mutex)
  /\ SetMx(p, [Mx(p) EXCEPT !.global_mutex = lock_sharable(@)])
  /\ Goto(p, "open_wo")
  /\ UNCHANGED <<shm, file, ret, calls>>

\* Open: wo_mutex.timed_lock_sharable; the file exists and is a non-empty
\* regular file.
Open_wo_lock_sharable(p) ==
  /\ sess[p].pc = "open_wo"
  /\ IF can_lock_sharable(Mx(p).wo_mutex)
     THEN /\ SetMx(p, [Mx(p) EXCEPT !.wo_mutex = lock_sharable(@)])
          /\ Goto(p, IF sess[p].writeonly THEN "open_upgrade" ELSE "open_map")
          /\ UNCHANGED ret
     ELSE Abort(p, Mx(p), "Cannot open, another process has this open write-only.")
  /\ UNCHANGED <<shm, file, calls>>

\* Open, write-only: wo_mutex.timed_unlock_upgradable_and_lock, up to its wait.
Open_wo_upgrade(p) ==
  /\ sess[p].pc = "open_upgrade"
  /\ SetMx(p, [Mx(p) EXCEPT !.wo_mutex = upgrade_begin(@)])
  /\ Goto(p, "open_upgrade_wait")
  /\ UNCHANGED <<shm, file, ret, calls>>

\* Open, write-only: the wait of timed_unlock_upgradable_and_lock ends with
\* no sharable owner left, or times out and rolls back.
Open_wo_upgrade_wait(p) ==
  /\ sess[p].pc = "open_upgrade_wait"
  /\ IF readers_gone(Mx(p).wo_mutex)
     THEN /\ Goto(p, "open_map")
          /\ UNCHANGED <<region, ret>>
     ELSE Abort(p, [Mx(p) EXCEPT !.wo_mutex = upgrade_rollback(@)],
                "Cannot lock for write-only, another process has this file open.")
  /\ UNCHANGED <<shm, file, calls>>

\* Open: the file is mapped and the {control, obj} pair returned; the
\* sharable lock on global_mutex is released at the return.
Open_map(p) ==
  /\ sess[p].pc = "open_map"
  /\ SetMx(p, [Mx(p) EXCEPT !.global_mutex = unlock_sharable(@)])
  /\ sess' = [sess EXCEPT ![p].pc = "idle", ![p].map_seg = "mapped"]
  /\ UNCHANGED ret
  /\ UNCHANGED <<shm, file, calls>>

\* The process is between calls, on a session whose mapping is not a deleted
\* one, and the handler calls explored are not used up.
Callable(p) ==
  /\ sess[p].pc = "idle"
  /\ sess[p].map_seg \in {"mapped", "null"}
  /\ calls < MaxOps

\* A handler returns or throws r without having taken a lock. What the
\* handlers return is followed in SpecData.
ReturnAtOnce(p, r) ==
  /\ file' = r.file
  /\ sess' = [sess EXCEPT ![p] = r.s]
  /\ calls' = calls + 1
  /\ UNCHANGED <<shm, region, ret>>

\* A handler that goes on to its locks inside writeLock's section too.
Proceed_IgnoreSection(p, prop, arg, locked, unlocked) ==
  /\ sess' = [sess EXCEPT ![p].pc = locked, ![p].prop = prop, ![p].arg = arg]
  /\ calls' = calls + 1
  /\ UNCHANGED <<shm, region, file, ret>>

\* A handler goes on to its locks, or past them inside writeLock's section.
Proceed(p, prop, arg, locked, unlocked) ==
  /\ sess' = [sess EXCEPT ![p].pc = IF sess[p].inGlobalLock THEN unlocked ELSE locked,
                          ![p].prop = prop, ![p].arg = arg]
  /\ calls' = calls + 1
  /\ UNCHANGED <<shm, region, file, ret>>

\* The handler's table access is done and it returns or throws r.
Finish(p, r) ==
  /\ file' = r.file
  /\ sess' = [sess EXCEPT ![p] = [r.s EXCEPT !.pc = IF r.s.pc = "terminated" THEN "terminated" ELSE "idle",
                                            !.prop = JsUndefined, !.arg = JsUndefined,
                                            !.held = <<>>]]
  /\ UNCHANGED <<shm, ret, calls>>

\* The call of p has requested the lock and goes on to pc.
Request(p, pc, lock) == sess' = [sess EXCEPT ![p].pc = pc, ![p].held = Append(@, lock)]

\* A scoped_lock or sharable_lock constructor on rw_mutex[h] or global_mutex.
LockShardSharable(p, from, to) ==
  /\ sess[p].pc = from
  /\ can_lock_sharable(rw_mutex(Mx(p), Shard(p)))
  /\ SetMx(p, with_rw_mutex(Mx(p), Shard(p), lock_sharable(rw_mutex(Mx(p), Shard(p)))))
  /\ Request(p, to, <<"rw_mutex", "sharable">>)
  /\ UNCHANGED <<shm, file, ret, calls>>

\* One lock for the whole table: the exclusive request for a shard's mutex
\* waits until no shard's mutex is owned.
LockShardEnter_AnyShard(p, from, to) ==
  /\ sess[p].pc = from
  /\ \A h \in (DOMAIN Mx(p).rw_mutex) \cup {Shard(p)} : rw_mutex(Mx(p), h) = Unlocked
  /\ SetMx(p, with_rw_mutex(Mx(p), Shard(p), enter_exclusive(rw_mutex(Mx(p), Shard(p)))))
  /\ Request(p, to, <<"rw_mutex", "exclusive">>)
  /\ UNCHANGED <<shm, file, ret, calls>>

LockShardEnter(p, from, to) ==
  /\ sess[p].pc = from
  /\ can_enter_exclusive(rw_mutex(Mx(p), Shard(p)))
  /\ SetMx(p, with_rw_mutex(Mx(p), Shard(p), enter_exclusive(rw_mutex(Mx(p), Shard(p)))))
  /\ Request(p, to, <<"rw_mutex", "exclusive">>)
  /\ UNCHANGED <<shm, file, ret, calls>>

LockShardWait(p, from, to) ==
  /\ sess[p].pc = from
  /\ readers_gone(rw_mutex(Mx(p), Shard(p)))
  /\ Goto(p, to)
  /\ UNCHANGED <<shm, region, file, ret, calls>>

LockGlobalSharable(p, from, to) ==
  /\ sess[p].pc = from
  /\ can_lock_sharable(Mx(p).global_mutex)
  /\ SetMx(p, [Mx(p) EXCEPT !.global_mutex = lock_sharable(@)])
  /\ Request(p, to, <<"global_mutex", "sharable">>)
  /\ UNCHANGED <<shm, file, ret, calls>>

LockGlobalEnter(p, from, to) ==
  /\ sess[p].pc = from
  /\ can_enter_exclusive(Mx(p).global_mutex)
  /\ SetMx(p, [Mx(p) EXCEPT !.global_mutex = enter_exclusive(@)])
  /\ Request(p, to, <<"global_mutex", "exclusive">>)
  /\ UNCHANGED <<shm, file, ret, calls>>

LockGlobalWait(p, from, to) ==
  /\ sess[p].pc = from
  /\ readers_gone(Mx(p).global_mutex)
  /\ Goto(p, to)
  /\ UNCHANGED <<shm, region, file, ret, calls>>

\* PropGetter: the checks before the locks.
Get_call(p, prop) ==
  /\ Callable(p)
  /\ IF prop.kind = "symbol" \/ CStr(prop.chars) = Str_prototype \/ sess[p].closed
     THEN ReturnAtOnce(p, PropGetter(file, sess[p], prop))
     ELSE Proceed(p, prop, JsUndefined, "get_shard", "get_access")

\* PropGetter: sharable_lock on rw_mutex[h], then on global_mutex.
Get_lock_shard(p) == LockShardSharable(p, "get_shard", "get_global")
Get_lock_global(p) == LockGlobalSharable(p, "get_global", "get_access")

\* PropGetter: find and return; the locks taken are released at the return.
Get_access(p) ==
  /\ sess[p].pc = "get_access"
  /\ Finish(p, PropGetter(file, sess[p], sess[p].prop))
  /\ IF sess[p].inGlobalLock
     THEN UNCHANGED region
     ELSE SetMx(p, with_rw_mutex([Mx(p) EXCEPT !.global_mutex = unlock_sharable(@)],
                                 Shard(p), unlock_sharable(rw_mutex(Mx(p), Shard(p)))))

\* PropSetter: the checks before the locks.
Set_call(p, prop, value) ==
  /\ Callable(p)
  /\ IF \/ sess[p].readonly \/ sess[p].closed
        \/ prop.kind = "symbol" \/ value.kind \notin {"string", "number"}
     THEN ReturnAtOnce(p, PropSetter(file, sess[p], prop, value, TRUE))
     ELSE Proceed(p, prop, value, "set_shard", "set_access")

\* PropSetter: scoped_lock on rw_mutex[h], then sharable_lock on global_mutex.
Set_lock_shard(p) == LockShardEnter(p, "set_shard", "set_shard_wait")
Set_lock_shard_wait(p) == LockShardWait(p, "set_shard_wait", "set_global")
Set_lock_global(p) == LockGlobalSharable(p, "set_global", "set_access")

\* PropSetter: the insert loop with its growth; the locks taken are released
\* at the return.
Set_access(p, growOk) ==
  /\ sess[p].pc = "set_access"
  /\ Finish(p, PropSetter(file, sess[p], sess[p].prop, sess[p].arg, growOk))
  /\ IF sess[p].inGlobalLock
     THEN UNCHANGED region
     ELSE SetMx(p, with_rw_mutex([Mx(p) EXCEPT !.global_mutex = unlock_sharable(@)],
                                 Shard(p), unlock(rw_mutex(Mx(p), Shard(p)))))

\* PropDeleter: the checks before the lock.
Delete_call(p, prop) ==
  /\ Callable(p)
  /\ IF prop.kind = "symbol" \/ sess[p].readonly \/ sess[p].closed
     THEN ReturnAtOnce(p, PropDeleter(file, sess[p], prop))
     ELSE Proceed(p, prop, JsUndefined, "delete_shard", "delete_access")

\* PropDeleter: scoped_lock on rw_mutex[h]; global_mutex is not locked.
Delete_lock_shard(p) == LockShardEnter(p, "delete_shard", "delete_shard_wait")
Delete_lock_shard_wait(p) == LockShardWait(p, "delete_shard_wait", "delete_access")

\* PropDeleter: the key's copy and erase; the lock taken is released at the
\* return, and kept by a process that the uncaught bad_alloc ends.
Delete_access(p) ==
  /\ sess[p].pc = "delete_access"
  /\ LET r == PropDeleter(file, sess[p], sess[p].prop)
     IN /\ Finish(p, r)
        /\ IF sess[p].inGlobalLock \/ r.s.pc = "terminated"
           THEN UNCHANGED region
           ELSE SetMx(p, with_rw_mutex(Mx(p), Shard(p), unlock(rw_mutex(Mx(p), Shard(p)))))

\* PropEnumerator: a closed session gets an empty array.
Enumerate_call(p) ==
  /\ Callable(p)
  /\ IF sess[p].closed
     THEN ReturnAtOnce(p, PropEnumerator(file, sess[p]))
     ELSE Proceed(p, JsUndefined, JsUndefined, "enumerate_global", "enumerate_access")

\* PropEnumerator: scoped_lock on global_mutex.
Enumerate_lock_global(p) == LockGlobalEnter(p, "enumerate_global", "enumerate_global_wait")
Enumerate_lock_global_wait(p) == LockGlobalWait(p, "enumerate_global_wait", "enumerate_access")

\* A PropEnumerator that returns without releasing global_mutex.
Enumerate_access_KeepsLock(p) ==
  /\ sess[p].pc = "enumerate_access"
  /\ Finish(p, PropEnumerator(file, sess[p]))
  /\ UNCHANGED region

\* PropEnumerator: the walk over the shards; the lock taken is released at
\* the return.
Enumerate_access(p) ==
  /\ sess[p].pc = "enumerate_access"
  /\ Finish(p, PropEnumerator(file, sess[p]))
  /\ IF sess[p].inGlobalLock
     THEN UNCHANGED region
     ELSE SetMx(p, [Mx(p) EXCEPT !.global_mutex = unlock(@)])

\* writeLock and writeUnlock reach global_mutex through self->map->mutexes
\* with no check of closed: once the close has unmapped mutex_region the
\* access is to unmapped memory, which ends the process.
Unmapped(p) ==
  /\ sess[p].mutexes = 0
  /\ Goto(p, "terminated")
  /\ UNCHANGED <<shm, region, file, ret, calls>>

\* writeLock is called.
writeLock(p) ==
  /\ sess[p].pc = "idle"
  /\ sess[p].map_seg \in {"mapped", "null"}
  /\ Goto(p, "writeLock")
  /\ UNCHANGED <<shm, region, file, ret, calls>>

\* writeLock: global_mutex.lock(), first gate.
writeLock_enter(p) ==
  /\ sess[p].pc = "writeLock"
  /\ IF sess[p].mutexes = 0 THEN Unmapped(p)
     ELSE LockGlobalEnter(p, "writeLock", "writeLock_wait")

\* A writeLock that takes global_mutex and leaves inGlobalLock as it was.
writeLock_wait_NoMark(p) ==
  /\ sess[p].pc = "writeLock_wait"
  /\ IF sess[p].mutexes = 0 THEN Unmapped(p)
     ELSE /\ readers_gone(Mx(p).global_mutex)
          /\ sess' = [sess EXCEPT ![p].pc = "idle", ![p].held = <<>>]
          /\ UNCHANGED <<shm, region, file, ret, calls>>

\* writeLock: the second gate, then inGlobalLock = true and the callback is
\* called with the bound writeUnlock.
writeLock_wait(p) ==
  /\ sess[p].pc = "writeLock_wait"
  /\ IF sess[p].mutexes = 0 THEN Unmapped(p)
     ELSE /\ readers_gone(Mx(p).global_mutex)
          /\ sess' = [sess EXCEPT ![p].pc = "idle", ![p].inGlobalLock = TRUE, ![p].held = <<>>]
          /\ UNCHANGED <<shm, region, file, ret, calls>>

\* writeUnlock, called once by the callback that writeLock gave the bound
\* function to: inGlobalLock = false and global_mutex.unlock().
writeUnlock(p) ==
  /\ sess[p].pc = "idle"
  /\ sess[p].inGlobalLock
  /\ IF sess[p].mutexes = 0
     THEN /\ sess' = [sess EXCEPT ![p].pc = "terminated", ![p].inGlobalLock = FALSE]
          /\ UNCHANGED region
     ELSE /\ sess' = [sess EXCEPT ![p].inGlobalLock = FALSE]
          /\ SetMx(p, [Mx(p) EXCEPT !.global_mutex = unlock(@)])
  /\ UNCHANGED <<shm, file, ret, calls>>

\* CloseWorker::Execute: shrink_to_fit for a write-only session, flush and
\* delete of map_seg, the release of wo_mutex, the unmapping of mutex_region.
Execute(p) ==
  /\ file' = IF sess[p].writeonly
             THEN [file EXCEPT !.size = file.size - file.free, !.free = 0]
             ELSE file
  /\ SetMx(p, [Mx(p) EXCEPT !.wo_mutex = IF sess[p].writeonly THEN unlock(@)
                                        ELSE unlock_sharable(@)])

\* Close of a session that is not closed, without a callback: Execute on the
\* calling thread, then closed = true and map_seg = NULL. (Close of a closed
\* session throws and changes nothing.)
Close(p) ==
  /\ sess[p].pc = "idle"
  /\ sess[p].map_seg = "mapped"
  /\ ~sess[p].closed
  /\ Execute(p)
  /\ sess' = [sess EXCEPT ![p].closed = TRUE, ![p].map_seg = "null", ![p].mutexes = 0]
  /\ UNCHANGED <<shm, ret, calls>>

\* Close of a session that is not closed, with a callback: the worker is
\* queued, then closed = true and map_seg = NULL.
Close_async(p) ==
  /\ sess[p].pc = "idle"
  /\ sess[p].map_seg = "mapped"
  /\ ~sess[p].closed
  /\ sess' = [sess EXCEPT ![p].closed = TRUE, ![p].map_seg = "null", ![p].worker = "queued"]
  /\ UNCHANGED <<shm, region, file, ret, calls>>

\* The queued CloseWorker runs on a thread of the pool.
CloseWorker_Execute(p) ==
  /\ sess[p].worker = "queued"
  /\ Execute(p)
  /\ sess' = [sess EXCEPT ![p].worker = "done", ![p].mutexes = 0]
  /\ UNCHANGED <<shm, ret, calls>>

\* What the binding passes as property and as value in Spec.
SpecProps == {JsString(Str_a)}
SpecValues == {JsString(Str_x)}

\* No process has opened the path; the file exists, of the minimum size and
\* with free space for the sets explored.
Init ==
  /\ shm = 0
  /\ region = <<>>
  /\ sess = [p \in Procs |-> NewSharedMap]
  /\ file = [exists |-> TRUE, size |-> MINIMUM_FILE_SIZE, free |-> MaxFreeUnits * FreeUnit,
             tables |-> EmptyTables]
  /\ ret = NoReturn
  /\ calls = 0

Next ==
  \E p \in Procs :
    \/ \E mode \in {"ro", "rw", "wo"}, max \in OpenMaxSizes : Open(p, mode, max)
    \/ reify_open_only(p)
    \/ reify_remove(p)
    \/ reify_create(p)
    \/ reify_trial_lock(p)
    \/ reify_trial_wait(p)
    \/ Open_global_lock(p)
    \/ Open_wo_lock_sharable(p)
    \/ Open_wo_upgrade(p)
    \/ Open_wo_upgrade_wait(p)
    \/ Open_map(p)
    \/ \E prop \in SpecProps : Get_call(p, prop)
    \/ Get_lock_shard(p)
    \/ Get_lock_global(p)
    \/ Get_access(p)
    \/ \E prop \in SpecProps, value \in SpecValues : Set_call(p, prop, value)
    \/ Set_lock_shard(p)
    \/ Set_lock_shard_wait(p)
    \/ Set_lock_global(p)
    \/ \E growOk \in BOOLEAN : Set_access(p, growOk)
    \/ \E prop \in SpecProps : Delete_call(p, prop)
    \/ Delete_lock_shard(p)
    \/ Delete_lock_shard_wait(p)
    \/ Delete_access(p)
    \/ Enumerate_call(p)
    \/ Enumerate_lock_global(p)
    \/ Enumerate_lock_global_wait(p)
    \/ Enumerate_access(p)
    \/ writeLock(p)
    \/ writeLock_enter(p)
    \/ writeLock_wait(p)
    \/ writeUnlock(p)
    \/ Close(p)
    \/ Close_async(p)
    \/ CloseWorker_Execute(p)

Spec == Init /\ [][Next]_vars

(***************************************************************************)
(* SpecSession: the life of one session, from Open to Close, every call    *)
(* run to completion by the only process that has the path open            *)
(***************************************************************************)
\* The sizes of Open are whole numbers of KB (the arguments are in KB, and
\* MINIMUM_FILE_SIZE, DEFAULT_FILE_SIZE and DEFAULT_MAX_SIZE are multiples of
\* 1024), and the model computes them in KB: 5000ul<<20 bytes is more than
\* the integers of the checker hold.
DEFAULT_FILE_SIZE_KB == 5 * 1024       \* 5ul<<20 bytes
DEFAULT_MAX_SIZE_KB == 5000 * 1024     \* 5000ul<<20 bytes
MINIMUM_FILE_SIZE_KB == MINIMUM_FILE_SIZE \div 1024
DefaultBucketCount == 1024

\* Open: initial_file_size, max_file_size and initial_bucket_count from the
\* arguments info[2], info[3] (both in KB) and info[4]; the sizes in KB.
OpenSizes(file_size_kb, max_kb, bucket_count) ==
  LET initial1 == IF file_size_kb = 0 THEN DEFAULT_FILE_SIZE_KB ELSE file_size_kb
      small == initial1 < MINIMUM_FILE_SIZE_KB
      initial2 == IF small THEN MINIMUM_FILE_SIZE_KB ELSE initial1
      max1 == IF small THEN Max(initial2, max_kb) ELSE max_kb
      max2 == IF max1 = 0 THEN DEFAULT_MAX_SIZE_KB ELSE max1
  IN [initial_file_size_kb |-> initial2,
      max_file_size_kb |-> max2,
      initial_bucket_count |-> IF bucket_count = 0 THEN DefaultBucketCount ELSE bucket_count]

\* A size of kb KB in bytes. A size beyond the largest integer of the checker
\* stands as that integer: no file of the model comes near it.
LargestInteger == (2^30 - 1) + 2^30
Bytes(kb) == IF kb > LargestInteger \div 1024 THEN LargestInteger ELSE kb * 1024

JsBoolean(b) == [kind |-> "boolean", chars |-> <<>>, num |-> IF b THEN 1 ELSE 0]

\* The arguments of Open explored: file size and maximum size in KB, bucket count.
SessFileSizes == {0, 1, 20}
SessMaxSizes == {0, 40}
SessBucketCounts == {0, 300}

\* What the binding passes as property and as value in SpecSession.
SessProps == {JsString(Str_a), JsString(Str_long_key), JsSymbol}
SessValues == {JsString(Str_x), JsOther}

\* Open run to completion when no other process has the path open and the
\* file exists: the sizes, a new SharedMap, reify_mutexes creating the region
\* and constructing Mutexes, wo_mutex locked sharably and, for a write-only
\* session, upgraded, the file mapped. ret keeps the arguments and the sizes
\* computed from them (in KB).
SessOpen(mode, file_size_kb, max_kb, bucket_count) ==
  LET sizes == OpenSizes(file_size_kb, max_kb, bucket_count)
      shared == lock_sharable(Unlocked)
      wo == IF mode = "wo" THEN upgrade_begin(shared) ELSE shared
  IN /\ sess[D].pc = "unopened"
     /\ shm = 0
     /\ region' = <<[NewMutexes EXCEPT !.wo_mutex = wo]>>
     /\ shm' = 1
     /\ sess' = [sess EXCEPT ![D] =
                   [NewSharedMap EXCEPT !.pc = "idle", !.readonly = (mode = "ro"),
                                        !.writeonly = (mode = "wo"),
                                        !.max_file_size = Bytes(sizes.max_file_size_kb),
                                        !.map_seg = "mapped", !.mutexes = 1, !.opens = 1]]
     /\ ret' = [op |-> "open", proc |-> D, prop |-> JsUndefined,
                arg |-> JsArray(<<file_size_kb, max_kb, bucket_count>>),
                status |-> "ok", error |-> "",
                value |-> JsArray(<<sizes.initial_file_size_kb, sizes.max_file_size_kb,
                                    sizes.initial_bucket_count>>)]
     /\ UNCHANGED <<file, calls>>

\* A Close of a closed session that succeeds silently.
Close_closed_Silent(p, async) ==
  /\ sess[p].pc = "idle"
  /\ sess[p].closed
  /\ ret' = [op |-> "close", proc |-> p, prop |-> JsUndefined, arg |-> JsBoolean(async),
             status |-> "ok", error |-> "", value |-> JsUndefined]
  /\ UNCHANGED <<shm, region, sess, file, calls>>

\* Close of a closed session: the error is thrown, or handed to the callback
\* when one was passed, and nothing else is done.
Close_closed(p, async) ==
  /\ sess[p].pc = "idle"
  /\ sess[p].closed
  /\ ret' = [op |-> "close", proc |-> p, prop |-> JsUndefined, arg |-> JsBoolean(async),
             status |-> IF async THEN "callback_error" ELSE "error",
             error |-> "Attempted to close a closed object.", value |-> JsUndefined]
  /\ UNCHANGED <<shm, region, sess, file, calls>>

\* isClosed and isOpen.
isClosed(s) == s.closed
isOpen(s) == ~s.closed

SessIsClosed ==
  /\ sess[D].pc = "idle"
  /\ ret' = [op |-> "isClosed", proc |-> D, prop |-> JsUndefined, arg |-> JsUndefined,
             status |-> "ok", error |-> "", value |-> JsBoolean(isClosed(sess[D]))]
  /\ UNCHANGED <<shm, region, sess, file, calls>>

SessIsOpen ==
  /\ sess[D].pc = "idle"
  /\ ret' = [op |-> "isOpen", proc |-> D, prop |-> JsUndefined, arg |-> JsUndefined,
             status |-> "ok", error |-> "", value |-> JsBoolean(isOpen(sess[D]))]
  /\ UNCHANGED <<shm, region, sess, file, calls>>

\* INFO_METHOD(get_size) and INFO_METHOD(get_free_memory): the method of
\* map_seg is called with no check of closed. Close sets map_seg to NULL, and
\* the call through the null pointer is undefined: the process ends, or some
\* number is returned (crash chooses).
INFO_METHOD(name, crash) ==
  /\ sess[D].pc = "idle"
  /\ sess[D].map_seg \in {"mapped", "null"}
  /\ IF sess[D].map_seg = "mapped"
     THEN /\ ret' = [op |-> name, proc |-> D, prop |-> JsUndefined, arg |-> JsUndefined,
                     status |-> "ok", error |-> "",
                     value |-> JsNumber(IF name = "get_size" THEN file.size ELSE file.free)]
          /\ UNCHANGED sess
     ELSE IF crash
     THEN /\ ret' = [op |-> name, proc |-> D, prop |-> JsUndefined, arg |-> JsUndefined,
                     status |-> "terminated", error |-> "", value |-> JsUndefined]
          /\ Goto(D, "terminated")
     ELSE /\ ret' = [op |-> name, proc |-> D, prop |-> JsUndefined, arg |-> JsUndefined,
                     status |-> "ok", error |-> "", value |-> JsNumber(0)]
          /\ UNCHANGED sess
  /\ UNCHANGED <<shm, region, file, calls>>

\* The path is not open; the file exists, of the minimum size, with no free
\* space left or with space for the sets explored.
InitSession ==
  /\ shm = 0
  /\ region = <<>>
  /\ sess = [p \in Procs |-> NewSharedMap]
  /\ \E units \in {0, MaxFreeUnits} :
       file = [exists |-> TRUE, size |-> MINIMUM_FILE_SIZE, free |-> units * FreeUnit,
               tables |-> EmptyTables]
  /\ ret = NoReturn
  /\ calls = 0

NextSession ==
  \/ \E mode \in {"ro", "rw", "wo"}, kb \in SessFileSizes, max_kb \in SessMaxSizes,
        buckets \in SessBucketCounts : SessOpen(mode, kb, max_kb, buckets)
  \/ \E prop \in SessProps, value \in SessValues, growOk \in BOOLEAN : DataSet(prop, value, growOk)
  \/ \E prop \in SessProps : DataGet(prop)
  \/ \E prop \in SessProps : DataDelete(prop)
  \/ DataEnumerate
  \/ \E name \in {"get_size", "get_free_memory"}, crash \in BOOLEAN : INFO_METHOD(name, crash)
  \/ SessIsClosed
  \/ SessIsOpen
  \/ writeLock(D)
  \/ writeLock_enter(D)
  \/ writeLock_wait(D)
  \/ writeUnlock(D)
  \/ Close(D)
  \/ Close_async(D)
  \/ CloseWorker_Execute(D)
  \/ \E async \in BOOLEAN : Close_closed(D, async)

SpecSession == InitSession /\ [][NextSession]_vars

(***************************************************************************)
(* SpecOps: the property handlers and writeLock/writeUnlock of sessions    *)
(* that are open on one Mutexes block, interleaved; no session opens,      *)
(* closes or ends                                                          *)
(***************************************************************************)
OpsProcs == {"A", "B", "C"}

\* Two keys of different shards, and the value set.
OpsProps == {JsString(Str_a), JsString(Str_x)}
OpsValues == {JsString(Str_x)}

\* The modes of the sessions ("none": the process has not opened the path):
\* two read-write sessions and a read-only one side by side, or one
\* write-only session alone.
OpsModes ==
  {[A |-> "rw", B |-> "rw", C |-> "ro"], [A |-> "wo", B |-> "none", C |-> "none"]}

\* wo_mutex after the Opens of the sessions: one sharable owner for each
\* read-only or read-write session, or the exclusive owner.
OpsWoMutex(m) ==
  IF m["A"] = "wo" THEN upgrade_begin(lock_sharable(Unlocked))
  ELSE [Unlocked EXCEPT !.num_upr_shar = Cardinality({p \in OpsProcs : m[p] \in {"ro", "rw"}})]

\* The sessions are open on the region that the first Open created; the file
\* is of the minimum size, with no free space left or with space for the
\* sets explored.
InitOps ==
  /\ shm = 1
  /\ \E m \in OpsModes :
       /\ region = <<[NewMutexes EXCEPT !.wo_mutex = OpsWoMutex(m)]>>
       /\ sess = [p \in OpsProcs |->
                    IF m[p] = "none" THEN NewSharedMap
                    ELSE [NewSharedMap EXCEPT !.pc = "idle", !.readonly = (m[p] = "ro"),
                                             !.writeonly = (m[p] = "wo"),
                                             !.max_file_size = 40 * 1024,
                                             !.map_seg = "mapped", !.mutexes = 1, !.opens = 1]]
  /\ \E units \in {0, MaxFreeUnits} :
       file = [exists |-> TRUE, size |-> MINIMUM_FILE_SIZE, free |-> units * FreeUnit,
               tables |-> EmptyTables]
  /\ ret = NoReturn
  /\ calls = 0

\* writeLock called by a session that is not inside its exclusive section (a
\* second global_mutex.lock() by the owner never returns, and the section is
\* never left).
writeLock_outside(p) ==
  /\ ~sess[p].inGlobalLock
  /\ writeLock(p)

\* The steps of p that wait for nothing.
OpsCall(p) ==
  \/ \E prop \in OpsProps : Get_call(p, prop)
  \/ \E prop \in OpsProps, value \in OpsValues : Set_call(p, prop, value)
  \/ \E prop \in OpsProps : Delete_call(p, prop)
  \/ Enumerate_call(p)
  \/ writeLock_outside(p)

OpsAccess(p) ==
  \/ Get_access(p)
  \/ \E growOk \in BOOLEAN : Set_access(p, growOk)
  \/ Delete_access(p)
  \/ Enumerate_access(p)

\* The steps of p that wait for a mutex.
OpsLock(p) ==
  \/ Get_lock_shard(p)
  \/ Get_lock_global(p)
  \/ Set_lock_shard(p)
  \/ Set_lock_shard_wait(p)
  \/ Set_lock_global(p)
  \/ Delete_lock_shard(p)
  \/ Delete_lock_shard_wait(p)
  \/ Enumerate_lock_global(p)
  \/ Enumerate_lock_global_wait(p)
  \/ writeLock_enter(p)
  \/ writeLock_wait(p)

NextOps ==
  \E p \in OpsProcs :
    \/ OpsCall(p)
    \/ OpsLock(p)
    \/ OpsAccess(p)
    \/ writeUnlock(p)

SpecOps == InitOps /\ [][NextOps]_vars

\* Fair scheduling: a handler that has its locks runs to its return, a
\* request for a mutex that is free again and again is granted, and the
\* callback of writeLock calls writeUnlock.
FairSpecOps ==
  /\ SpecOps
  /\ \A p \in OpsProcs : SF_vars(OpsLock(p) \/ OpsAccess(p) \/ writeUnlock(p))

(***************************************************************************)
(* SpecUnlock: SpecOps with a callback of writeLock that calls the bound   *)
(* writeUnlock it was given two times                                      *)
(***************************************************************************)
\* writeUnlock, the first of the two calls a callback makes: inGlobalLock =
\* false and global_mutex.unlock(); the callback goes on to its second call.
writeUnlock_first(p) ==
  /\ sess[p].pc = "idle"
  /\ sess[p].inGlobalLock
  /\ sess[p].mutexes # 0
  /\ sess' = [sess EXCEPT ![p].inGlobalLock = FALSE, ![p].pc = "unlock_again"]
  /\ SetMx(p, [Mx(p) EXCEPT !.global_mutex = unlock(@)])
  /\ UNCHANGED <<shm, file, ret, calls>>

\* writeUnlock, called again: it tests nothing, sets inGlobalLock = false and
\* calls global_mutex.unlock(), whoever owns the mutex.
writeUnlock_again(p) ==
  /\ sess[p].pc = "unlock_again"
  /\ sess' = [sess EXCEPT ![p].inGlobalLock = FALSE, ![p].pc = "idle"]
  /\ SetMx(p, [Mx(p) EXCEPT !.global_mutex = unlock(@)])
  /\ UNCHANGED <<shm, file, ret, calls>>

NextUnlock ==
  \/ NextOps
  \/ \E p \in OpsProcs : writeUnlock_first(p)
  \/ \E p \in OpsProcs : writeUnlock_again(p)

SpecUnlock == InitOps /\ [][NextUnlock]_vars

(***************************************************************************)
(* SpecGrow: SharedMap::grow applied to the session of SpecData, with the  *)
(* sizes that its arithmetic distinguishes                                 *)
(***************************************************************************)
\* The sizes asked of grow: below, at and above the floor of 100 bytes, and
\* the sizes that reach and pass max_file_size from the minimum file.
GrowSizes == {0, GrowFloor - 1, GrowFloor, GrowFloor + 1, MINIMUM_FILE_SIZE,
              3 * MINIMUM_FILE_SIZE, 3 * MINIMUM_FILE_SIZE + 1}

\* grow(size) on the session, whole: the file and the session as grow leaves
\* them, and what it returned and threw.
GrowCall(size, growOk) ==
  /\ DataCallable
  /\ LET g == grow(file, sess[D], size, growOk)
     IN /\ file' = g.file
        /\ sess' = [sess EXCEPT ![D] = g.s]
        /\ ret' = Returned("grow", D, JsUndefined, JsNumber(size),
                           [status |-> IF g.error = "" THEN "ok" ELSE "error",
                            error |-> g.error, value |-> JsBoolean(g.error = "")])
  /\ calls' = calls + 1
  /\ UNCHANGED <<shm, region>>

NextGrow == \E size \in GrowSizes, growOk \in BOOLEAN : GrowCall(size, growOk)

SpecGrow == InitData /\ [][NextGrow]_vars

(***************************************************************************)
(* SpecSetLoop: PropSetter of the session of SpecData with every pass of   *)
(* its while(true) loop a step of its own                                  *)
(***************************************************************************)
LoopProps == {JsString(Str_a), JsString(Str_long_key), JsSymbol}
LoopValues == {JsString(Str_x), JsString(Str_long_value), JsNumber(1), JsOther}

\* max_file_size of the session, in bytes.
LoopMaxSizes == {10 * 1024, 40 * 1024, 200 * 1024}

InitSetLoop ==
  /\ shm = 0
  /\ region = <<>>
  /\ \E mode \in {"ro", "rw", "wo"}, max \in LoopMaxSizes :
       sess = [p \in Procs |->
                 IF p = D
                 THEN [NewSharedMap EXCEPT !.pc = "idle", !.readonly = (mode = "ro"),
                                          !.writeonly = (mode = "wo"), !.max_file_size = max,
                                          !.map_seg = "mapped"]
                 ELSE NewSharedMap]
  /\ \E units \in {0, MaxFreeUnits} :
       file = [exists |-> TRUE, size |-> MINIMUM_FILE_SIZE, free |-> units * FreeUnit,
               tables |-> EmptyTables]
  /\ ret = NoReturn
  /\ calls = 0

\* The handler up to its loop: the checks of readonly, closed, the property
\* and the value, each of which returns at once.
SetLoop_call(prop, value) ==
  LET s == sess[D]
      refused == s.readonly \/ s.closed \/ prop.kind = "symbol"
                   \/ value.kind \notin {"string", "number"}
  IN /\ DataCallable
     /\ IF refused
        THEN DataReturn("set", prop, value, PropSetter(file, s, prop, value, TRUE))
        ELSE /\ sess' = [sess EXCEPT ![D].pc = "set_loop", ![D].prop = prop, ![D].arg = value]
             /\ calls' = calls + 1
             /\ UNCHANGED <<shm, region, file, ret>>

\* A pass of the loop's body that reaches break: the handler returns the
\* value.
SetLoop_break ==
  LET s == sess[D]
      a == SetAttempt(file, s.prop.chars, s.arg)
  IN /\ s.pc = "set_loop"
     /\ ~a.thrown
     /\ file' = a.file
     /\ sess' = [sess EXCEPT ![D].pc = "idle"]
     /\ ret' = Returned("set", D, s.prop, s.arg,
                        [status |-> "ok", error |-> "", value |-> s.arg])
     /\ UNCHANGED <<shm, region, calls>>

\* A bad_alloc handler that goes round the loop again whatever grow returned.
SetLoop_bad_alloc_IgnoreGrow(growOk) ==
  LET s == sess[D]
      a == SetAttempt(file, s.prop.chars, s.arg)
      g == grow(a.file, s, grow_size(a.file.size, data_length(s.arg)), growOk)
  IN /\ s.pc = "set_loop"
     /\ a.thrown
     /\ file' = g.file
     /\ sess' = [sess EXCEPT ![D] = [g.s EXCEPT !.map_seg = "mapped"]]
     /\ UNCHANGED <<shm, region, ret, calls>>

\* A pass of the loop's body that throws bad_alloc: the handler asks grow for
\* grow_size bytes and returns when grow returns false, or goes round again.
SetLoop_bad_alloc(growOk) ==
  LET s == sess[D]
      a == SetAttempt(file, s.prop.chars, s.arg)
      g == grow(a.file, s, grow_size(a.file.size, data_length(s.arg)), growOk)
  IN /\ s.pc = "set_loop"
     /\ a.thrown
     /\ file' = g.file
     /\ IF g.error # ""
        THEN /\ sess' = [sess EXCEPT ![D] = [g.s EXCEPT !.pc = "idle"]]
             /\ ret' = Returned("set", D, s.prop, s.arg,
                                [status |-> "error", error |-> g.error, value |-> JsUndefined])
        ELSE /\ sess' = [sess EXCEPT ![D] = g.s]
             /\ UNCHANGED ret
     /\ UNCHANGED <<shm, region, calls>>

SetLoop_pass == SetLoop_break \/ \E growOk \in BOOLEAN : SetLoop_bad_alloc(growOk)

NextSetLoop ==
  \/ \E prop \in LoopProps, value \in LoopValues : SetLoop_call(prop, value)
  \/ SetLoop_pass

SpecSetLoop == InitSetLoop /\ [][NextSetLoop]_vars

\* The handler runs on the thread that called it: a pass that can be made is
\* made.
FairSpecSetLoop == SpecSetLoop /\ WF_vars(SetLoop_pass)

(***************************************************************************)
(* SpecGrowSize: the bad_alloc handler of PropSetter, applied with the     *)
(* data_length of values up to three times the size of the minimum file    *)
(***************************************************************************)
\* data_length of the value being set: a one-character string, and strings
\* about as long as the file, twice the file and three times the file.
GrowLengths == {SizeofCell + 1, MINIMUM_FILE_SIZE, MINIMUM_FILE_SIZE + 1,
                2 * MINIMUM_FILE_SIZE, 2 * MINIMUM_FILE_SIZE + 1, 3 * MINIMUM_FILE_SIZE}

\* catch(bip::bad_alloc) of a set whose value has this data_length: grow_size
\* and the call of grow. ret records the call of grow: its argument, what it
\* returned and threw, and (as prop) the data_length it was computed from.
bad_alloc_handler(length, growOk) ==
  /\ DataCallable
  /\ LET request == grow_size(file.size, length)
         g == grow(file, sess[D], request, growOk)
     IN /\ file' = g.file
        /\ sess' = [sess EXCEPT ![D] = g.s]
        /\ ret' = Returned("grow", D, JsNumber(length), JsNumber(request),
                           [status |-> IF g.error = "" THEN "ok" ELSE "error",
                            error |-> g.error, value |-> JsBoolean(g.error = "")])
  /\ calls' = calls + 1
  /\ UNCHANGED <<shm, region>>

NextGrowSize == \E length \in GrowLengths, growOk \in BOOLEAN : bad_alloc_handler(length, growOk)

SpecGrowSize == InitData /\ [][NextGrowSize]_vars

(***************************************************************************)
(* SpecOpen: Open with its failures, Close with the statements of          *)
(* CloseWorker::Execute as steps, and the destructor of SharedMap,         *)
(* interleaved between processes; writeLock and writeUnlock are there to   *)
(* keep global_mutex owned while another process opens                     *)
(***************************************************************************)
\* The file when the first Open is called: the file of Init, an empty file,
\* or no file.
OpenFiles ==
  {[exists |-> TRUE, size |-> MINIMUM_FILE_SIZE, free |-> MaxFreeUnits * FreeUnit,
    tables |-> EmptyTables],
   [exists |-> TRUE, size |-> 0, free |-> 0, tables |-> EmptyTables],
   [exists |-> FALSE, size |-> 0, free |-> 0, tables |-> EmptyTables]}

InitOpen ==
  /\ shm = 0
  /\ region = <<>>
  /\ sess = [p \in Procs |-> NewSharedMap]
  /\ file \in OpenFiles
  /\ ret = NoReturn
  /\ calls = 0

\* Open: what stat, S_ISREG, st_size and readonly lead to. "" is the way on
\* to wo_mutex.
StatError(p) ==
  IF file.exists
  THEN IF file.size = 0 THEN "is an empty file." ELSE ""
  ELSE IF sess[p].readonly THEN "does not exist, cannot open read-only." ELSE ""

\* Open: the file is empty, or missing for a read-only open: goto ABORT from
\* inside the block of the sharable lock on global_mutex.
Open_stat_fail(p) ==
  /\ sess[p].pc = "open_wo"
  /\ StatError(p) # ""
  /\ Abort(p, Mx(p), StatError(p))
  /\ UNCHANGED <<shm, file, calls>>

\* Open: the file passed the checks, and wo_mutex.timed_lock_sharable.
Open_stat_ok(p) ==
  /\ StatError(p) = ""
  /\ Open_wo_lock_sharable(p)

\* Open: managed_mapped_file(open_or_create) creates the file when there is
\* none.
Open_map_file(p) ==
  /\ sess[p].pc = "open_map"
  /\ SetMx(p, [Mx(p) EXCEPT !.global_mutex = unlock_sharable(@)])
  /\ sess' = [sess EXCEPT ![p].pc = "idle", ![p].map_seg = "mapped"]
  /\ file' = IF file.exists THEN file
             ELSE [exists |-> TRUE, size |-> MINIMUM_FILE_SIZE,
                   free |-> MaxFreeUnits * FreeUnit, tables |-> EmptyTables]
  /\ UNCHANGED <<shm, ret, calls>>

\* Open: the mapping throws interprocess_exception and Open goes to ABORT, or
\* the size of the mapping is not the size of the file and Open returns
\* ("appears to be corrupt (1)."). Both leave the block of the sharable lock
\* on global_mutex; neither touches wo_mutex. The SharedMap is not wrapped
\* and no destructor will run for it.
Open_map_fail(p, corrupt) ==
  /\ sess[p].pc = "open_map"
  /\ corrupt => file.exists
  /\ Abort(p, Mx(p), IF corrupt THEN "appears to be corrupt (1)." ELSE "Can't open file")
  /\ UNCHANGED <<shm, file, calls>>

\* Close without a callback: closer->Execute() starts on the calling thread.
Close_sync(p) ==
  /\ sess[p].pc = "idle"
  /\ sess[p].map_seg = "mapped"
  /\ ~sess[p].closed
  /\ sess' = [sess EXCEPT ![p].pc = "close", ![p].worker = "queued"]
  /\ UNCHANGED <<shm, region, file, ret, calls>>

\* Execute: shrink_to_fit(file_name) when writeonly.
Execute_shrink(p) ==
  /\ sess[p].worker = "queued"
  /\ file' = IF sess[p].writeonly
             THEN [file EXCEPT !.size = file.size - file.free, !.free = 0]
             ELSE file
  /\ sess' = [sess EXCEPT ![p].worker = "shrunk"]
  /\ UNCHANGED <<shm, region, ret, calls>>

\* An Execute that gives wo_mutex up before it flushes.
Execute_flush_AfterUnlock(p) ==
  /\ sess[p].worker = "shrunk"
  /\ SetMx(p, [Mx(p) EXCEPT !.wo_mutex = IF sess[p].writeonly THEN unlock(@)
                                        ELSE unlock_sharable(@)])
  /\ sess' = [sess EXCEPT ![p].worker = "flushed"]
  /\ UNCHANGED <<shm, file, ret, calls>>

\* Execute: map_seg->flush().
Execute_flush(p) ==
  /\ sess[p].worker = "shrunk"
  /\ sess' = [sess EXCEPT ![p].worker = "flushed"]
  /\ UNCHANGED <<shm, region, file, ret, calls>>

\* Execute: delete map_seg. Close without a callback sets the session's
\* map_seg to NULL only after Execute.
Execute_delete(p) ==
  /\ sess[p].worker = "flushed"
  /\ sess' = [sess EXCEPT ![p].worker = "unmapped",
                          ![p].map_seg = IF sess[p].pc = "close" THEN "deleted" ELSE @]
  /\ UNCHANGED <<shm, region, file, ret, calls>>

\* Execute: wo_mutex->unlock() when writeonly, else unlock_sharable().
Execute_unlock(p) ==
  /\ sess[p].worker = "unmapped"
  /\ SetMx(p, [Mx(p) EXCEPT !.wo_mutex = IF sess[p].writeonly THEN unlock(@)
                                        ELSE unlock_sharable(@)])
  /\ sess' = [sess EXCEPT ![p].worker = "unlocked"]
  /\ UNCHANGED <<shm, file, ret, calls>>

\* Execute: mutex_region->~mapped_region(); then, in Close without a
\* callback, closed = true and map_seg = NULL.
Execute_unmap(p) ==
  /\ sess[p].worker = "unlocked"
  /\ sess' = [sess EXCEPT ![p] =
                IF sess[p].pc = "close"
                THEN [@ EXCEPT !.pc = "idle", !.worker = "none", !.mutexes = 0,
                               !.closed = TRUE, !.map_seg = "null"]
                ELSE [@ EXCEPT !.worker = "done", !.mutexes = 0]]
  /\ UNCHANGED <<shm, region, file, ret, calls>>

\* SharedMap::~SharedMap of a session that was not closed, when its object is
\* collected: unlock_upgradable for a write-only session, unlock_sharable
\* otherwise; the members go with it, mutex_region unmapped.
Destroy(p) ==
  /\ sess[p].pc = "idle"
  /\ sess[p].map_seg = "mapped"
  /\ ~sess[p].closed
  /\ SetMx(p, [Mx(p) EXCEPT !.wo_mutex = IF sess[p].writeonly THEN unlock_upgradable(@)
                                        ELSE unlock_sharable(@)])
  /\ sess' = [sess EXCEPT ![p].pc = "destroyed", ![p].mutexes = 0]
  /\ UNCHANGED <<shm, file, ret, calls>>

NextOpen ==
  \E p \in Procs :
    \/ \E mode \in {"ro", "rw", "wo"}, max \in OpenMaxSizes : Open(p, mode, max)
    \/ reify_open_only(p)
    \/ reify_remove(p)
    \/ reify_create(p)
    \/ reify_trial_lock(p)
    \/ reify_trial_wait(p)
    \/ Open_global_lock(p)
    \/ Open_stat_fail(p)
    \/ Open_stat_ok(p)
    \/ Open_wo_upgrade(p)
    \/ Open_wo_upgrade_wait(p)
    \/ Open_map_file(p)
    \/ \E corrupt \in BOOLEAN : Open_map_fail(p, corrupt)
    \/ writeLock(p)
    \/ writeLock_enter(p)
    \/ writeLock_wait(p)
    \/ writeUnlock(p)
    \/ Close_sync(p)
    \/ Close_async(p)
    \/ Execute_shrink(p)
    \/ Execute_flush(p)
    \/ Execute_delete(p)
    \/ Execute_unlock(p)
    \/ Execute_unmap(p)
    \/ Destroy(p)

SpecOpen == InitOpen /\ [][NextOpen]_vars

(***************************************************************************)
(* Claims about the locking protocol (Spec)                                *)
(***************************************************************************)
\* C1 as stated (write-exclusivity): in every reachable state, while a session
\* opened in write-only mode is open, no session of another process is open
\* on the path.
C1_WriteExclusivity ==
  \A p \in Procs : \A q \in Procs \ {p} :
    (IsOpen(p) /\ sess[p].writeonly) => ~IsOpen(q)

\* C2 as stated (write-only hand-off): a read-write Open called while the
\* write-only session of another process was open has not succeeded as long
\* as that session is still open.
C2_WriteOnlyHandOff ==
  \A b \in Procs : \A w \in sess[b].wo_at_call :
    (IsOpen(b) /\ ~sess[b].readonly /\ ~sess[b].writeonly)
      => ~(IsOpen(w[1]) /\ sess[w[1]].writeonly /\ sess[w[1]].opens = w[2])

\* The session of p is inside the table access of a per-key handler.
InKeyAccess(p) == sess[p].pc \in {"get_access", "set_access", "delete_access"}

\* The sessions of p and q have the same Mutexes mapped, and it is the one
\* its creator constructed: no reification has constructed it again.
SameMutexes(p, q) ==
  /\ sess[p].mutexes # 0
  /\ sess[p].mutexes = sess[q].mutexes
  /\ ~Mx(p).again

\* C3 as stated (same-shard exclusion), for sessions on one Mutexes block that
\* no reification has constructed again: never are two sessions inside the
\* table access of a get, set or delete on the same shard when one of the
\* two is a set or a delete, a session inside writeLock's exclusive section
\* (which skips the per-call locks) included.
C3_SameShardExclusion ==
  \A p \in Procs : \A q \in Procs \ {p} :
    ~ /\ SameMutexes(p, q)
      /\ sess[p].pc \in {"set_access", "delete_access"}
      /\ InKeyAccess(q)
      /\ Shard(p) = Shard(q)

\* C4 as stated (enumerate snapshot isolation), for sessions on one Mutexes
\* block that no reification has constructed again: while a session walks
\* the shards inside enumerate, no other session is inside the table access
\* of a get, set or delete.
C4_EnumerateIsolation ==
  \A p \in Procs : \A q \in Procs \ {p} :
    ~ /\ SameMutexes(p, q)
      /\ sess[p].pc = "enumerate_access"
      /\ InKeyAccess(q)

\* C5 as stated (Lock Block uniqueness): the sessions that are open on the
\* path at the same time have the same Mutexes region mapped.
C5_LockBlockUnique ==
  \A p \in Procs : \A q \in Procs \ {p} :
    (IsOpen(p) /\ IsOpen(q)) => sess[p].mutexes = sess[q].mutexes

(***************************************************************************)
(* Claims about the handlers (SpecData)                                    *)
(***************************************************************************)
ErrResizeMode == "File needs to be larger but can only be resized in write-only mode."
ErrCapacity == "File grew too large."
ErrGrowIO == "Error growing file."

\* The step is a call of handler op by the session of SpecData.
DataCall(op) == calls' = calls + 1 /\ ret'.op = op

\* The session is open and not read-only when the call is made.
WriteCapable == ~sess[D].readonly /\ ~sess[D].closed

\* A set of a string property to a string or a number.
ValidSet(r) == r.prop.kind = "string" /\ r.arg.kind \in {"string", "number"}

\* What get(prop) returns on the arena f.
GetOn(f, s, prop) == LET r == PropGetter(f, s, prop) IN <<r.status, r.value>>

\* The keys enumerate returns on the arena f, as a set.
EnumeratedSet(f) == LET e == ShardKeys(f.tables, 0) IN {e[i] : i \in 1..Len(e)}

\* C6 as stated: on an open write-capable session (ReadWrite or WriteOnly) a
\* set of a string or number value reports no error but the capacity error:
\* allocator exhaustion is never surfaced.
C6_ExhaustionNeverSurfaced ==
  [][(DataCall("set") /\ WriteCapable /\ ValidSet(ret') /\ ret'.status = "error")
       => ret'.error = ErrCapacity]_vars

\* C6 as amended: a set whose first pass runs out of arena memory, on a
\* WriteOnly session, grows the file and ends having stored the same key and
\* value, or fails with the capacity error or with the failure of the file's
\* extension; on a ReadWrite session it fails with the resize-mode error and
\* the file keeps its size. A set whose first pass does not run out of memory
\* succeeds without growth.
C6_ExhaustionGrowsWriteOnly ==
  [][(DataCall("set") /\ WriteCapable /\ ValidSet(ret'))
       => LET first == SetAttempt(file, ret'.prop.chars, ret'.arg)
              key == CStr(ret'.prop.chars)
              map == TableAt(file'.tables, HASH(ret'.prop.chars))
          IN /\ ~first.thrown => (ret'.status = "ok" /\ file'.size = file.size)
             /\ (first.thrown /\ sess[D].writeonly)
                  => \/ /\ ret'.status = "ok"
                        /\ ret'.value = ret'.arg
                        /\ file'.size > file.size
                        /\ key \in DOMAIN map
                        /\ map[key] = NewCell(ret'.arg)
                     \/ /\ ret'.status = "error"
                        /\ ret'.error = ErrCapacity
                        /\ file'.size + Max(Max(2 * file'.size, data_length(ret'.arg)), GrowFloor)
                             > sess[D].max_file_size
                     \/ /\ ret'.status = "error"
                        /\ ret'.error = ErrGrowIO
             /\ (first.thrown /\ ~sess[D].writeonly)
                  => /\ ret'.status = "error"
                     /\ ret'.error = ErrResizeMode
                     /\ file'.size = file.size]_vars

\* C6 witness: a set on a WriteOnly session has run out of memory, grown the
\* file and stored its value.
C6_Witness ==
  /\ ret.op = "set" /\ ret.status = "ok"
  /\ sess[D].writeonly
  /\ file.size > MINIMUM_FILE_SIZE
  /\ LET map == TableAt(file.tables, HASH(ret.prop.chars))
     IN CStr(ret.prop.chars) \in DOMAIN map

\* C7 as stated: a set that fails because growth would exceed max_size leaves
\* every key that was present with the Cell it had, the key being set included.
C7_FailedSetPreservesData ==
  [][(DataCall("set") /\ ret'.status = "error" /\ ret'.error = ErrCapacity)
       => file'.tables = file.tables]_vars

\* C8 as stated: after a successful set(k, v) of a string or a number, get(k)
\* returns v with its tag, and get of every other key returns what it did.
C8_RoundTrip ==
  [][(DataCall("set") /\ WriteCapable /\ ret'.status = "ok")
       => /\ GetOn(file', sess'[D], ret'.prop) = <<"ok", ret'.arg>>
          /\ \A other \in DataProps \ {ret'.prop} :
               GetOn(file', sess'[D], other) = GetOn(file, sess[D], other)]_vars

\* C9 as stated: delete(k) on an open write-capable session returns without
\* error in any arena state, leaves k absent, changes no shard when k was
\* absent, and a second delete(k) changes nothing more.
C9_DeleteNeverFails ==
  [][(DataCall("delete") /\ WriteCapable /\ ret'.prop.kind = "string")
       => LET key == CStr(ret'.prop.chars)
              h == HASH(ret'.prop.chars)
          IN /\ ret'.status = "ok"
             /\ key \notin DOMAIN TableAt(file'.tables, h)
             /\ key \notin DOMAIN TableAt(file.tables, h) => file'.tables = file.tables
             /\ PropDeleter(file', sess'[D], ret'.prop).file.tables = file'.tables]_vars

\* C10 as stated: enumerate returns exactly the keys set and not deleted since,
\* each once: a successful set(k) adds k to what enumerate returns, a
\* successful delete(k) removes k, no key is listed twice, and a key is held
\* by the shard of its hash only.
C10_EnumerateExact ==
  [][(calls' = calls + 1 /\ WriteCapable /\ ret'.status = "ok" /\ ret'.prop.kind = "string")
       => LET after == ShardKeys(file'.tables, 0)
          IN /\ \A i, j \in 1..Len(after) : after[i] = after[j] => i = j
             /\ \A h \in 0..(SHARDS - 1) : \A k \in DOMAIN TableAt(file'.tables, h) : h = HASH(k)
             /\ ret'.op = "set"
                  => EnumeratedSet(file') = EnumeratedSet(file) \cup {ret'.prop.chars}
             /\ ret'.op = "delete"
                  => EnumeratedSet(file') = EnumeratedSet(file) \ {ret'.prop.chars}
             /\ ret'.op \in {"get", "enumerate"}
                  => EnumeratedSet(file') = EnumeratedSet(file)]_vars

(***************************************************************************)
(* Claims about the life of a session (SpecSession)                        *)
(***************************************************************************)
\* The calls that C11 names, as ret records them.
ClosedOps == {"get", "set", "delete", "enumerate", "get_size", "get_free_memory"}

\* C11 as stated: every get, set, delete, enumerate, get_size and
\* get_free_memory on a closed session returns an error and changes neither
\* the arena nor the lock state; an explicit lock (writeLock) called on a
\* closed session takes no lock and does not end the process.
C11_ClosedFailsEverything ==
  [][/\ (sess[D].closed /\ (calls' = calls + 1 \/ ret' # ret) /\ ret'.op \in ClosedOps)
          => (ret'.status = "error" /\ file' = file /\ region' = region)
     /\ (sess[D].closed /\ sess[D].pc \in {"writeLock", "writeLock_wait"}
            /\ sess'[D].worker = sess[D].worker)
          => (region' = region /\ ~sess'[D].inGlobalLock /\ sess'[D].pc # "terminated")]_vars

C13_ClosedTerminal ==
  [][/\ sess[D].closed => sess'[D].closed
     /\ isOpen(sess'[D]) = ~isClosed(sess'[D])
     /\ (ret' # ret /\ ret'.op = "isOpen") => ret'.value = JsBoolean(~sess[D].closed)
     /\ (ret' # ret /\ ret'.op = "isClosed") => ret'.value = JsBoolean(sess[D].closed)]_vars

\* C13 witness: a write-only session whose set grew the file has been closed,
\* and a set called on it afterwards has been refused; it is still closed.
C13_Witness ==
  /\ sess[D].closed /\ sess[D].writeonly
  /\ file.size > MINIMUM_FILE_SIZE
  /\ ret.op = "set" /\ ret.error = "Cannot write to closed object."

\* C14: on a read-only session every set and every delete throws an error
\* and leaves the arena (contents and size), the locks and the session as
\* they were.
C14_ReadOnlyNeverMutates ==
  [][(sess[D].readonly /\ calls' = calls + 1 /\ ret'.op \in {"set", "delete"})
       => /\ ret'.status = "error"
          /\ ret'.error \in {"Cannot write to read-only object.",
                             "Cannot delete from read-only object.",
                             "Symbol properties are not supported for delete."}
          /\ UNCHANGED <<file, region, shm, sess>>]_vars

\* C14 witness: a delete of a string key on an open read-only session has been
\* refused.
C14_Witness ==
  /\ sess[D].readonly /\ ~sess[D].closed /\ sess[D].map_seg = "mapped"
  /\ ret.op = "delete" /\ ret.prop.kind = "string"
  /\ ret.error = "Cannot delete from read-only object."

\* C16 as stated: after Open, with the sizes in KB: an omitted (zero) max_size
\* gives the default maximum whatever initial_size is, an omitted
\* initial_size gives the default 5 MB, an initial_size below the floor is
\* raised to the floor, and an omitted bucket_count becomes 1024.
C16_SizeDefaults ==
  ret.op = "open"
    => LET file_size_kb == ret.arg.chars[1]
           max_kb == ret.arg.chars[2]
           bucket_count == ret.arg.chars[3]
           initial_file_size_kb == ret.value.chars[1]
           max_file_size_kb == ret.value.chars[2]
           initial_bucket_count == ret.value.chars[3]
       IN /\ max_kb = 0 => max_file_size_kb = DEFAULT_MAX_SIZE_KB
          /\ file_size_kb = 0 => initial_file_size_kb = DEFAULT_FILE_SIZE_KB
          /\ (file_size_kb # 0 /\ file_size_kb < MINIMUM_FILE_SIZE_KB)
               => initial_file_size_kb = MINIMUM_FILE_SIZE_KB
          /\ bucket_count = 0 => initial_bucket_count = 1024

(***************************************************************************)
(* Claims about the locks of the handlers (SpecOps, FairSpecOps)           *)
(***************************************************************************)
\* The call in progress of r has requested the mutex of shard h.
HoldsShard(r, h) ==
  /\ Shard(r) = h
  /\ \E i \in 1..Len(sess[r].held) : sess[r].held[i][1] = "rw_mutex"

\* C15 (shard independence): while a session is inside the table access of a
\* set, holding its shard's mutex exclusively, the set of another session on
\* a different shard can take its next lock, provided global_mutex is not
\* exclusively owned or being taken exclusively and no third session has the
\* second shard's mutex.
C15_ShardIndependence ==
  \A p \in OpsProcs : \A q \in OpsProcs \ {p} :
    ( /\ sess[p].pc = "set_access" /\ ~sess[p].inGlobalLock
      /\ sess[q].pc \in {"set_shard", "set_shard_wait", "set_global"}
      /\ Shard(q) # Shard(p)
      /\ Mx(q).global_mutex.exclusive_in = 0
      /\ \A r \in OpsProcs \ {q} : ~HoldsShard(r, Shard(q)) )
    => ENABLED OpsLock(q)

\* C15 witness: two sessions are inside the table access of a set at the same
\* time, each holding the mutex of its own shard.
C15_Witness ==
  \E p \in OpsProcs : \E q \in OpsProcs \ {p} :
    /\ sess[p].pc = "set_access" /\ sess[q].pc = "set_access"
    /\ ~sess[p].inGlobalLock /\ ~sess[q].inGlobalLock
    /\ Shard(p) # Shard(q)
    /\ HoldsShard(p, Shard(p)) /\ HoldsShard(q, Shard(q))

\* C17 (lock order): a call never requests a shard's mutex after global_mutex,
\* nor while its session is inside writeLock's section; at its table access
\* get has requested shard-sharable then global-sharable, set
\* shard-exclusive then global-sharable, delete shard-exclusive only and
\* enumerate global-exclusive only, and inside writeLock's section nothing.
C17_LockOrder ==
  \A p \in OpsProcs :
    LET h == sess[p].held
        pc == sess[p].pc
    IN /\ \A i, j \in 1..Len(h) : (h[i][1] = "global_mutex" /\ h[j][1] = "rw_mutex") => j < i
       /\ sess[p].inGlobalLock => h = <<>>
       /\ ~sess[p].inGlobalLock
            => /\ pc = "get_access" => h = << <<"rw_mutex", "sharable">>, <<"global_mutex", "sharable">> >>
               /\ pc = "set_access" => h = << <<"rw_mutex", "exclusive">>, <<"global_mutex", "sharable">> >>
               /\ pc = "delete_access" => h = << <<"rw_mutex", "exclusive">> >>
               /\ pc = "enumerate_access" => h = << <<"global_mutex", "exclusive">> >>

\* C17 witness: a set that took its locks and a get that took its locks are
\* inside their table accesses.
C17_Witness ==
  \E p \in OpsProcs : \E q \in OpsProcs \ {p} :
    /\ sess[p].pc = "set_access" /\ Len(sess[p].held) = 2
    /\ sess[q].pc = "get_access" /\ Len(sess[q].held) = 2

\* The session of p has a call in progress; the call waits for a mutex.
Pending(p) == sess[p].pc \notin {"idle", "unopened", "terminated"}
Blocked(p) == Pending(p) /\ ~ENABLED (OpsLock(p) \/ OpsAccess(p))

\* Some call in progress can take a step, or waits for a writeLock section
\* that its owner can leave.
C18_SomeCallRuns ==
  (\E p \in OpsProcs : Pending(p))
    => \/ \E p \in OpsProcs : Pending(p) /\ ~Blocked(p)
       \/ \E p \in OpsProcs : sess[p].inGlobalLock /\ ~Pending(p)

\* C18 (deadlock freedom): in no reachable state is every call in progress
\* waiting for a mutex that no running call or section will release, and
\* under fair scheduling every call that has started returns.
C18_DeadlockFree ==
  /\ []C18_SomeCallRuns
  /\ \A p \in OpsProcs : Pending(p) ~> ~Pending(p)

\* C18 witness: a set waits for global_mutex, holding its shard's mutex, while
\* another session walks the shards inside enumerate and a third waits to
\* enter writeLock.
C18_Witness ==
  \E p \in OpsProcs : \E q \in OpsProcs \ {p} : \E r \in OpsProcs \ {p, q} :
    /\ sess[p].pc = "set_global" /\ Blocked(p)
    /\ sess[q].pc = "enumerate_access" /\ ~sess[q].inGlobalLock
    /\ sess[r].pc = "writeLock" /\ Blocked(r)

\* C19 as stated: a set that grows the file does so holding global_mutex
\* exclusively, through its own lock or inside writeLock's section.
C19_GrowUnderExclusiveGlobal ==
  [][\A p \in OpsProcs :
       (sess[p].pc = "set_access" /\ sess'[p].pc # "set_access" /\ file'.size > file.size)
         => /\ Mx(p).global_mutex.exclusive_in = 1
            /\ \/ sess[p].inGlobalLock
               \/ \E i \in 1..Len(sess[p].held) : sess[p].held[i] = <<"global_mutex", "exclusive">>]_vars

(***************************************************************************)
(* Claims about grow (SpecGrow)                                            *)
(***************************************************************************)
\* The step is a call of grow; its argument, and the size it aims at.
GrowStep == ret'.op = "grow" /\ calls' = calls + 1
GrowNewSize == file.size + Max(ret'.arg.num, 100)

\* C20 as stated: on a write-capable session (ReadWrite or WriteOnly) grow
\* fails with the capacity error, leaving size, mapping and contents as they
\* were, when size + max(extra, 100) exceeds max_size, and otherwise leaves
\* the arena with exactly that size.
C20_GrowArithmetic ==
  [][(GrowStep /\ WriteCapable)
       => IF GrowNewSize > sess[D].max_file_size
          THEN /\ ret'.error = ErrCapacity
               /\ file' = file
               /\ sess'[D] = sess[D]
          ELSE file'.size = GrowNewSize]_vars

\* C20 as amended: on a WriteOnly session grow fails with the capacity error,
\* leaving size, mapping and contents as they were, when
\* size + max(extra, 100) exceeds max_size; otherwise it returns true with
\* the arena of exactly that size, at most max_size, and the contents kept,
\* or, when the extension of the file fails, throws with the file as it was
\* and the mapping deleted. On a session that is not WriteOnly grow fails
\* with the resize-mode error and changes nothing.
C20_GrowArithmeticWriteOnly ==
  [][GrowStep
       => IF ~sess[D].writeonly
          THEN /\ ret'.error = ErrResizeMode
               /\ file' = file
               /\ sess'[D] = sess[D]
          ELSE IF GrowNewSize > sess[D].max_file_size
          THEN /\ ret'.error = ErrCapacity
               /\ file' = file
               /\ sess'[D] = sess[D]
          ELSE \/ /\ ret'.status = "ok"
                  /\ file'.size = GrowNewSize
                  /\ file'.size <= sess[D].max_file_size
                  /\ file'.tables = file.tables
                  /\ sess'[D].map_seg = "mapped"
               \/ /\ ret'.error = ErrGrowIO
                  /\ file' = file
                  /\ sess'[D].map_seg = "deleted"]_vars

\* C20 witness: a grow asked for less than 100 bytes has extended the file of
\* a WriteOnly session by 100 bytes, and the next grow, whose size would pass
\* max_size, has failed with the capacity error.
C20_Witness ==
  /\ ret.op = "grow" /\ ret.error = ErrCapacity
  /\ sess[D].writeonly /\ sess[D].map_seg = "mapped"
  /\ file.size = MINIMUM_FILE_SIZE + 100
  /\ file.size + Max(ret.arg.num, 100) > sess[D].max_file_size

(***************************************************************************)
(* Claims about the growth a set asks for (SpecGrowSize)                   *)
(***************************************************************************)
\* The step is a run of the bad_alloc handler.
HandlerStep == ret'.op = "grow" /\ calls' = calls + 1

\* C21 as stated: the amount the handler asks grow for is twice the larger of
\* the arena's size and the size of the failed request.
C21_GrowRequestDoubledMax ==
  [][HandlerStep => ret'.arg.num = 2 * Max(file.size, ret'.prop.num)]_vars

\* C21 as amended: the amount the handler asks grow for is twice the arena's
\* size, or data_length (sizeof(Cell) plus the bytes of the value) when
\* that is larger than twice the arena's size.
C21_GrowRequest ==
  [][HandlerStep => ret'.arg.num = Max(2 * file.size, ret'.prop.num)]_vars

\* C21 witness: for a value of more than twice the arena's size the handler
\* of a WriteOnly session asked for data_length bytes, and the file grew by
\* them.
C21_Witness ==
  /\ ret.op = "grow" /\ ret.status = "ok"
  /\ ret.arg.num = ret.prop.num
  /\ ret.prop.num > 2 * MINIMUM_FILE_SIZE
  /\ file.size = MINIMUM_FILE_SIZE + ret.prop.num

(***************************************************************************)
(* Claims about the loop of a set (SpecSetLoop, FairSpecSetLoop)           *)
(***************************************************************************)
InLoop == sess[D].pc = "set_loop"

\* A pass of the loop that does not end the call has extended the file by at
\* least 100 bytes; a pass that ends it has returned the value or thrown.
C22_PassGrowsOrReturns ==
  [][InLoop => \/ /\ sess'[D].pc = "set_loop"
                  /\ file'.size >= file.size + 100
                  /\ file'.size <= sess[D].max_file_size
                  /\ ret' = ret
               \/ /\ sess'[D].pc = "idle"
                  /\ ret'.op = "set"
                  /\ \/ ret'.status = "ok" /\ ret'.value = sess[D].arg /\ file'.size = file.size
                     \/ ret'.status = "error"
                          /\ ret'.error \in {ErrResizeMode, ErrCapacity, ErrGrowIO}]_vars

\* C22 (set terminates): on an open write-capable session every pass of the
\* loop of a set either ends the call, with the value or with an error, or
\* extends the file by at least 100 bytes within max_size, and every set that
\* has entered its loop returns.
C22_SetTerminates ==
  /\ C22_PassGrowsOrReturns
  /\ [](file.size <= sess[D].max_file_size)
  /\ InLoop ~> ~InLoop

\* C22 witness: a set on a WriteOnly session is in its loop again after a
\* pass that ran out of memory and extended the file.
C22_Witness ==
  /\ InLoop
  /\ sess[D].writeonly /\ ~sess[D].closed
  /\ file.size >= 3 * MINIMUM_FILE_SIZE
  /\ file.size <= sess[D].max_file_size

(***************************************************************************)
(* Claims about writeLock's section (SpecOps)                              *)
(***************************************************************************)
\* The step is one of session p.
StepOf(p) == sess'[p] # sess[p]

\* Inside its section a session is between calls or inside a table access,
\* never at a lock, has requested no lock, and the get, set or delete it has
\* in progress can go on (the walk of enumerate waits for nothing once it is
\* at enumerate_access).
C23_SectionTakesNoLock ==
  \A p \in OpsProcs :
    sess[p].inGlobalLock
      => /\ sess[p].pc \in {"idle", "get_access", "set_access", "delete_access",
                            "enumerate_access"}
         /\ sess[p].held = <<>>
         /\ sess[p].pc \in {"get_access", "set_access", "delete_access"}
              => ENABLED OpsAccess(p)

\* C23 (explicit exclusive section): writeLock returns to its callback with
\* global_mutex exclusively owned and the session marked; while the session
\* is marked its handlers request no lock, leave every mutex as it is and
\* never wait; writeUnlock clears the mark and releases global_mutex alone;
\* outside the section a handler is at its table access only after
\* requesting its locks.
C23_ExclusiveSection ==
  /\ []C23_SectionTakesNoLock
  /\ [][\A p \in OpsProcs :
         StepOf(p) =>
           /\ (sess[p].pc = "writeLock_wait" /\ sess'[p].pc = "idle")
                => /\ sess'[p].inGlobalLock
                   /\ Mx(p).global_mutex.exclusive_in = 1
                   /\ Mx(p).global_mutex.num_upr_shar = 0
                   /\ region' = region
           /\ (~sess[p].inGlobalLock /\ sess'[p].inGlobalLock) => sess[p].pc = "writeLock_wait"
           /\ (sess[p].inGlobalLock /\ sess'[p].inGlobalLock) => region' = region
           /\ (sess[p].inGlobalLock /\ ~sess'[p].inGlobalLock)
                => /\ sess[p].pc = "idle" /\ sess'[p].pc = "idle"
                   /\ region'[sess[p].mutexes] =
                        [Mx(p) EXCEPT !.global_mutex.exclusive_in = 0]]_vars
  /\ [](\A p \in OpsProcs :
          (~sess[p].inGlobalLock
             /\ sess[p].pc \in {"get_access", "set_access", "delete_access", "enumerate_access"})
            => sess[p].held # <<>>)

\* C23 witness: a session enumerates inside its section, having requested no
\* lock, while the set of another session waits for global_mutex.
C23_Witness ==
  \E p \in OpsProcs : \E q \in OpsProcs \ {p} :
    /\ sess[p].inGlobalLock /\ sess[p].pc = "enumerate_access" /\ sess[p].held = <<>>
    /\ Mx(p).global_mutex.exclusive_in = 1
    /\ sess[q].pc = "set_global" /\ Blocked(q)

(***************************************************************************)
(* Claims about the trial lock of reify_mutexes (Spec)                     *)
(***************************************************************************)
\* The session of p is at the trial lock of reify_mutexes.
InTrial(p) == sess[p].pc \in {"trial_lock", "trial_wait"}

\* The trial lock waits for a bounded time: each of its steps can be taken.
C24_TrialNeverBlocks ==
  \A p \in Procs : InTrial(p) => ENABLED (reify_trial_lock(p) \/ reify_trial_wait(p))

\* C24 (reification trial lock): the trial lock changes nothing of the
\* Mutexes block but exclusive_in of global_mutex, which it sets at its first
\* gate and clears when it has the lock; when it times out, at either gate,
\* the whole block is constructed again, every mutex unlocked. Either way
\* global_mutex is not exclusively owned when reify_mutexes returns, and the
\* trial lock never waits without bound.
C24_TrialLock ==
  /\ []C24_TrialNeverBlocks
  /\ [][\A p \in Procs :
         (InTrial(p) /\ StepOf(p)) =>
           LET k == sess[p].mutexes
               m == region[k]
               taken == \/ sess[p].pc = "trial_lock" /\ can_enter_exclusive(m.global_mutex)
                        \/ sess[p].pc = "trial_wait" /\ readers_gone(m.global_mutex)
           IN /\ \A j \in 1..Len(region) : j # k => region'[j] = region[j]
              /\ (taken /\ sess[p].pc = "trial_lock")
                   => /\ sess'[p].pc = "trial_wait"
                      /\ region'[k] = [m EXCEPT !.global_mutex.exclusive_in = 1]
              /\ (taken /\ sess[p].pc = "trial_wait")
                   => /\ sess'[p].pc = "open_glock"
                      /\ region'[k] = [m EXCEPT !.global_mutex.exclusive_in = 0]
              /\ ~taken
                   => /\ sess'[p].pc = "open_glock"
                      /\ region'[k].global_mutex = Unlocked
                      /\ region'[k].wo_mutex = Unlocked
                      /\ region'[k].rw_mutex = <<>>
              /\ sess'[p].pc = "open_glock" => region'[k].global_mutex.exclusive_in = 0]_vars

\* C24 witness: a reification has returned after its trial lock timed out on
\* the section of another session, which is still marked as being inside it.
C24_Witness ==
  \E p \in Procs : \E q \in Procs \ {p} :
    /\ sess[p].pc = "open_glock"
    /\ sess[q].inGlobalLock /\ sess[q].mutexes = sess[p].mutexes
    /\ Mx(p).again
    /\ Mx(p).global_mutex = Unlocked /\ Mx(p).wo_mutex = Unlocked

(***************************************************************************)
(* Claims about Open's failures, Close and the destructor (SpecOpen)       *)
(***************************************************************************)
\* The step is the one in which the session of p gives up wo_mutex: the
\* unlock of CloseWorker::Execute or the destructor of a session not closed.
ReleasesWo(p) ==
  \/ sess[p].worker = "unmapped" /\ sess'[p].worker = "unlocked"
  \/ sess[p].pc = "idle" /\ sess'[p].pc = "destroyed"

\* wo_mutex w without the ownership an open session of this mode has of it.
WithoutOwner(w, writeonly) ==
  IF writeonly THEN [w EXCEPT !.exclusive_in = 0]
  ELSE [w EXCEPT !.num_upr_shar = @ - 1]

\* C25 as stated: when a session gives up wo_mutex, by Close with or without
\* a callback or by its destructor, the unlock matches the mode it holds the
\* mutex in, and wo_mutex is left without this session's ownership: not
\* exclusively owned after a WriteOnly session's release, with one sharable
\* owner less after another session's.
C25_MatchingRelease ==
  [][\A p \in Procs :
       ReleasesWo(p)
         => LET k == sess[p].mutexes
            IN /\ region[k].wo_mutex.num_upr_shar > 0 \/ sess[p].writeonly
               /\ region'[k].wo_mutex = WithoutOwner(region[k].wo_mutex, sess[p].writeonly)]_vars

\* Execute of p's close has started and has not given wo_mutex up yet.
Closing(p) == sess[p].worker \in {"queued", "shrunk", "flushed", "unmapped"}

\* C26 (close ordering): Execute, on the calling thread or on the worker
\* thread, shrinks the file (for a WriteOnly session only, otherwise the file
\* is untouched), then flushes, then deletes the mapping, and only then
\* changes wo_mutex, by the release; no step of the closing process changes
\* wo_mutex before the mapping is deleted.
C26_CloseOrdering ==
  [][\A p \in Procs :
       (Closing(p) /\ StepOf(p)) =>
         LET k == sess[p].mutexes
             w == sess[p].worker
             v == sess'[p].worker
         IN /\ w # "unmapped" => region'[k].wo_mutex = region[k].wo_mutex
            /\ v # w =>
                 /\ w = "queued"
                      => /\ v = "shrunk"
                         /\ file' = IF sess[p].writeonly
                                    THEN [file EXCEPT !.size = file.size - file.free, !.free = 0]
                                    ELSE file
                 /\ w = "shrunk" => (v = "flushed" /\ file' = file)
                 /\ w = "flushed" => (v = "unmapped" /\ file' = file)
                 /\ w = "unmapped"
                      => /\ v = "unlocked"
                         /\ file' = file
                         /\ region'[k] =
                              [region[k] EXCEPT !.wo_mutex =
                                 IF sess[p].writeonly THEN unlock(@) ELSE unlock_sharable(@)]]_vars

\* C26 witness: the worker of a WriteOnly session's close with a callback has
\* shrunk the file, flushed, deleted the mapping and released wo_mutex, and
\* another process has taken wo_mutex since.
C26_Witness ==
  \E p \in Procs : \E q \in Procs \ {p} :
    /\ sess[p].worker = "unlocked" /\ sess[p].writeonly /\ sess[p].closed
    /\ sess[p].pc = "idle"
    /\ file.free = 0 /\ file.size < MINIMUM_FILE_SIZE
    /\ sess[q].pc = "open_map" /\ sess[q].mutexes = sess[p].mutexes
    /\ ~Mx(p).again
    /\ Mx(p).wo_mutex.num_upr_shar = 1

\* The step is the one in which the Open of p fails.
OpenFails(p) == sess[p].pc # "failed" /\ sess'[p].pc = "failed"

\* wo_mutex w as it was before the Open of p touched it, given where the Open
\* is: it has not touched it before timed_lock_sharable returns, it has set
\* exclusive_in while it waits in timed_unlock_upgradable_and_lock, and it
\* owns the mutex in its mode once it is at the mapping of the file.
WoBeforeOpen(w, pc, writeonly) ==
  IF pc = "open_wo" THEN w
  ELSE IF pc = "open_upgrade_wait" THEN [w EXCEPT !.exclusive_in = 0]
  ELSE WithoutOwner(w, writeonly)

\* C28 as stated: when Open fails after reify_mutexes, the session it was
\* making holds neither global_mutex nor wo_mutex: the sharable lock on
\* global_mutex is released and wo_mutex is as it was before this Open
\* touched it.
C28_FailedOpenHoldsNothing ==
  [][\A p \in Procs :
       OpenFails(p)
         => LET k == sess[p].mutexes
            IN /\ region'[k].global_mutex = unlock_sharable(region[k].global_mutex)
               /\ region'[k].wo_mutex =
                    WoBeforeOpen(region[k].wo_mutex, sess[p].pc, sess[p].writeonly)]_vars

(***************************************************************************)
(* Claims about the ownership of global_mutex (Spec)                       *)
(***************************************************************************)
\* The session of p has taken global_mutex exclusively and has not released
\* it: it is inside writeLock's section or inside the walk of PropEnumerator.
HoldsGlobalExclusive(p) ==
  /\ sess[p].mutexes # 0
  /\ sess[p].inGlobalLock \/ sess[p].pc = "enumerate_access"

\* The session of p has taken global_mutex sharably and has not released it:
\* it is inside the table access of a get or a set that took its locks, or
\* inside the block of Open.
HoldsGlobalSharable(p) ==
  /\ sess[p].mutexes # 0
  /\ ~sess[p].inGlobalLock
  /\ sess[p].pc \in {"get_access", "set_access",
                     "open_wo", "open_upgrade", "open_upgrade_wait", "open_map"}

\* C27 as stated: of the sessions that have one Mutexes block mapped, at most
\* one holds global_mutex exclusively, and none holds it sharably while
\* another holds it exclusively, whatever the interleaving of get, set,
\* enumerate, writeLock, writeUnlock and the Opens of other processes.
C27_GlobalMutualExclusion ==
  \A p \in Procs : \A q \in Procs \ {p} :
    (sess[p].mutexes = sess[q].mutexes /\ HoldsGlobalExclusive(p))
      => ~HoldsGlobalExclusive(q) /\ ~HoldsGlobalSharable(q)

(***************************************************************************)
(* Claims about inGlobalLock and the owner of global_mutex (SpecUnlock)    *)
(***************************************************************************)
\* The step is a call of writeUnlock by the session of p.
UnlockCall(p) ==
  \/ sess[p].pc = "idle" /\ sess[p].inGlobalLock /\ ~sess'[p].inGlobalLock
  \/ sess[p].pc = "unlock_again" /\ sess'[p].pc = "idle"

\* A session marked as inside writeLock's section owns global_mutex: the
\* mutex is exclusively owned, and no other session on the block is marked
\* or inside the walk of PropEnumerator.
FlagMeansOwner ==
  \A p \in OpsProcs :
    (sess[p].inGlobalLock /\ sess[p].mutexes # 0)
      => /\ Mx(p).global_mutex.exclusive_in = 1
         /\ \A q \in OpsProcs \ {p} :
              sess[q].mutexes = sess[p].mutexes => ~HoldsGlobalExclusive(q)

\* C29 as stated: inGlobalLock of a session is true only while the session
\* owns global_mutex exclusively, it is true from the return of lock() on,
\* and a call of writeUnlock changes global_mutex only when the calling
\* session is the one that owns it, however many times writeUnlock is called.
C29_FlagMatchesOwnership ==
  /\ []FlagMeansOwner
  /\ [][\A p \in OpsProcs :
         /\ (sess[p].pc = "writeLock_wait" /\ sess'[p].pc = "idle") => sess'[p].inGlobalLock
         /\ (UnlockCall(p) /\ region' # region) => sess[p].inGlobalLock]_vars


====
